---- MODULE Spec2Model ----
(***************************************************************************)
(* OpenDance: the clip chain store (app/store/useClipStore.ts), the job    *)
(* transport and polling loop (app/services/api.ts), the generation        *)
(* orchestration (app/app/index.tsx) and the dummy-mode worker             *)
(* (worker/src/index.ts).                                                  *)
(*                                                                         *)
(* Strings are sequences of tokens: a literal fragment of a template is    *)
(* one token, a prompt is a sequence of its own tokens, a decimal number   *)
(* is the sequence of its digits.  null is the token NULL.                 *)
(***************************************************************************)
EXTENDS Integers, Sequences, FiniteSets, TLC

VARIABLES
    clips,              \* ClipStore.clips: sequence of Clip records
    phase,              \* ClipStore.phase
    selectedImageUri,   \* ClipStore.selectedImageUri
    nextId,             \* source of fresh clip ids (Date.now + random suffix)
    ret,                \* value returned by the last store call
    now,                \* wall clock, in tenths of a millisecond
    aborted,            \* AbortSignal.aborted of the attempt's controller
    pollPc,             \* where pollUntilDone is: idle, sleeping, checking,
                        \* or how it ended: Succeeded, Failed, Cancelled, TimedOut
    pollOut,            \* what pollUntilDone returned or threw
    delay,              \* pollUntilDone's delay, in tenths of a millisecond
    startTime,          \* pollUntilDone's startTime, in milliseconds
    pollTask,           \* pollUntilDone's taskId argument
    checkCalls,         \* checkStatus calls issued by this pollUntilDone
    sleepCount,         \* sleeps started by this pollUntilDone
    lastLabel,          \* last status passed to onStatusUpdate
    simJobs,            \* dummy mode: the /generate requests answered so far,
                        \* each with its time and the taskId returned
    simLast,            \* dummy mode: the last request and its response
    ticks,              \* clock steps taken
    simPrev,            \* dummy mode: the status check answered before the
                        \* last request, at the same time
    simSeen,            \* dummy mode: the task ids each worker instance issued
    genPc,              \* where startGeneration is: idle, submitting, polling,
                        \* downloading, thumbnail
    genClipId,          \* startGeneration's clipId
    genImage,           \* the selectedImageUri startGeneration was created with
    fullPrompt,         \* startGeneration's fullPrompt
    promptText,         \* MainScreen's prompt state (the text input)
    genStatus,          \* MainScreen's genStatus state
    modal,              \* title of the modal shown, or null
    controllerRef,      \* abortControllerRef.current
    preClips,           \* the chain as it was when the running attempt
                        \* began, before its record was appended
    imagePending,       \* a takePictureAsync or launchImageLibraryAsync call
                        \* is outstanding
    older,              \* the attempts still running that a newer
                        \* startGeneration has overtaken
    cancelAt,           \* where the newest attempt was when the user first
                        \* confirmed Cancel Generation during it, or null
    lastEnd,            \* how the attempt that ended last ended
    files               \* the files in the cache directory

storeVars == <<clips, phase, selectedImageUri, nextId, ret>>

pollVars == <<aborted, pollPc, pollOut, delay, startTime, pollTask,
              checkCalls, sleepCount, lastLabel>>

\* the locals of pollUntilDone
loopVars == <<pollPc, pollOut, delay, startTime, pollTask, checkCalls,
              sleepCount, lastLabel>>

simVars == <<simJobs, simLast, ticks, simPrev, simSeen>>

genVars == <<genPc, genClipId, genImage, fullPrompt, promptText, genStatus,
             modal, controllerRef, preClips, imagePending, older, cancelAt,
             lastEnd, files>>

vars == <<clips, phase, selectedImageUri, nextId, ret, now, aborted, pollPc,
          pollOut, delay, startTime, pollTask, checkCalls, sleepCount,
          lastLabel, simJobs, simLast, ticks, simPrev, simSeen, genPc, genClipId, genImage,
          fullPrompt, promptText, genStatus, modal, controllerRef, preClips,
          imagePending, older, cancelAt, lastEnd, files>>

----------------------------------------------------------------------------
(* Bounds *)

MaxIds == 3             \* clip ids ever handed out, so also the longest chain
MaxJitterMs == 1        \* a timer fires up to this many ms late
MaxLatencySteps == 1    \* a status check takes up to this many LatencyStepMs
MaxJobs == 2            \* dummy-mode jobs submitted
MaxTicks == 5           \* clock steps between dummy-mode requests
SlowCheckMs == 150000   \* how long a status check takes while the app runs
MaxOlder == 1           \* attempts still running when a new one starts
MaxAttempts == 2        \* generation attempts the app makes

----------------------------------------------------------------------------
(* Values *)

NULL == "null"

Prompts == {<<"a">>, <<"b">>, <<"c">>}
Images == {"img1"}
Videos == {"vid1"}
Frames == {"frame1"}
TaskIds == {"task1"}

ClipStatus == {"pending", "generating", "done", "failed"}
Phase == {"camera", "prompt", "generating", "preview"}

ClipFields == {"id", "imageUri", "prompt", "videoUri", "lastFrameUri",
               "status", "klingTaskId"}

Min(a, b) == IF a < b THEN a ELSE b
Max(a, b) == IF a > b THEN a ELSE b

----------------------------------------------------------------------------
(* String helpers (Array.prototype.join, String.prototype.includes) *)

RECURSIVE Join(_, _)
Join(lines, sep) ==
    IF lines = <<>> THEN <<>>
    ELSE IF Len(lines) = 1 THEN lines[1]
    ELSE lines[1] \o <<sep>> \o Join(Tail(lines), sep)

OccursAt(s, t, i) ==
    /\ i >= 1
    /\ i + Len(t) - 1 <= Len(s)
    /\ SubSeq(s, i, i + Len(t) - 1) = t

Includes(s, t) == \E i \in 1..(Len(s) + 1) : OccursAt(s, t, i)

----------------------------------------------------------------------------
(* Clip Chain Store *)

\* Mutant: the filter keeps every record that is not generating
FilterDone_KeepsFailed(cs) == SelectSeq(cs, LAMBDA c : c.status # "generating")

\* Array.prototype.filter((c) => c.status === 'done')
FilterDone(cs) == SelectSeq(cs, LAMBDA c : c.status = "done")

\* Mutant: slice(0, 2), the two oldest instead of the two newest
SliceLast2_First2(cs) == SubSeq(cs, 1, Min(2, Len(cs)))

\* Array.prototype.slice(-2)
SliceLast2(cs) == SubSeq(cs, Max(1, Len(cs) - 1), Len(cs))

\* Mutant: the record keeps the prompt with the context of the chain
NewClip_Enriched(id, imageUri, prompt) ==
    [id |-> id, imageUri |-> imageUri,
     prompt |-> IF SelectSeq(clips, LAMBDA c : c.status = "done") = <<>>
                THEN prompt
                ELSE <<"Previous scene: \"">> \o prompt,
     videoUri |-> NULL,
     lastFrameUri |-> NULL, status |-> "generating", klingTaskId |-> NULL]

NewClip(id, imageUri, prompt) ==
    [id |-> id, imageUri |-> imageUri, prompt |-> prompt, videoUri |-> NULL,
     lastFrameUri |-> NULL, status |-> "generating", klingTaskId |-> NULL]

\* { ...c, ...updates }
Merge(c, updates) ==
    [f \in DOMAIN c |-> IF f \in DOMAIN updates THEN updates[f] ELSE c[f]]

\* Mutant: the patch is merged into every record
MapUpdate_EveryRecord(cs, id, updates) ==
    [i \in 1..Len(cs) |-> Merge(cs[i], updates)]

\* Mutant: a patch for an id that is not in the chain appends a record
MapUpdate_Upserts(cs, id, updates) ==
    IF \E i \in 1..Len(cs) : cs[i].id = id
    THEN [i \in 1..Len(cs) |->
            IF cs[i].id = id THEN Merge(cs[i], updates) ELSE cs[i]]
    ELSE Append(cs, Merge(NewClip(id, NULL, <<>>), updates))

\* Mutant: the patched record is taken out of the chain
MapUpdate_Removes(cs, id, updates) == SelectSeq(cs, LAMBDA c : c.id # id)

MapUpdate(cs, id, updates) ==
    [i \in 1..Len(cs) |-> IF cs[i].id = id THEN Merge(cs[i], updates) ELSE cs[i]]

\* Clip | null: the empty sequence is null, <<c>> is the clip c
NoClip == <<>>

getLastClip(cs) ==
    IF Len(cs) = 0 THEN NoClip ELSE <<cs[Len(cs)]>>

\* Mutant: the previous prompt is not interpolated
PreviousScene_NoPrompt(p) == <<"Previous scene: \"">> \o <<"\"">>

PreviousScene(p) == <<"Previous scene: \"">> \o p \o <<"\"">>
TwoScenesAgo(p) == <<"Two scenes ago: \"">> \o p \o <<"\"">>
CurrentScene(p) ==
    <<"Current scene (continuing from the last frame): \"">> \o p \o <<"\"">>
Continuity == <<"Maintain smooth visual and motion continuity.">>

getContextPrompt(cs, userPrompt) ==
    LET doneClips == FilterDone(cs)
        recent == SliceLast2(doneClips)
    IN  IF Len(doneClips) = 0 THEN userPrompt
        ELSE IF Len(recent) = 1
        THEN Join(<<PreviousScene(recent[1].prompt),
                    CurrentScene(userPrompt),
                    Continuity>>, "\n")
        ELSE Join(<<TwoScenesAgo(recent[1].prompt),
                    PreviousScene(recent[2].prompt),
                    CurrentScene(userPrompt),
                    Continuity>>, "\n")

----------------------------------------------------------------------------
(* Store operations called directly (any caller, any arguments) *)

\* Partial<Clip> values that change a record's status
StatusUpdates ==
    {[videoUri |-> v, lastFrameUri |-> f, status |-> "done"] :
        v \in Videos, f \in Frames}
    \cup {[status |-> "failed"]}

StoreInit ==
    /\ clips = <<>>
    /\ phase = "camera"
    /\ selectedImageUri = NULL
    /\ nextId = 1
    /\ ret = [op |-> "none"]

setPhase(p) ==
    /\ phase' = p
    /\ ret' = [op |-> "setPhase"]
    /\ UNCHANGED <<clips, selectedImageUri, nextId, now, pollVars, simVars,
                   genVars>>

setSelectedImage(uri) ==
    /\ selectedImageUri' = uri
    /\ ret' = [op |-> "setSelectedImage"]
    /\ UNCHANGED <<clips, phase, nextId, now, pollVars, simVars, genVars>>

\* Mutant: reset() clears the chain only
reset_ChainOnly ==
    /\ clips' = <<>>
    /\ ret' = [op |-> "reset"]
    /\ UNCHANGED <<phase, selectedImageUri, nextId, now, pollVars, simVars,
                   genVars>>

addClip(imageUri, prompt) ==
    /\ nextId <= MaxIds
    /\ clips' = Append(clips, NewClip(nextId, imageUri, prompt))
    /\ nextId' = nextId + 1
    /\ ret' = [op |-> "addClip", val |-> nextId]
    /\ UNCHANGED <<phase, selectedImageUri, now, pollVars, simVars, genVars>>

updateClip(id, updates) ==
    /\ clips' = MapUpdate(clips, id, updates)
    /\ ret' = [op |-> "updateClip"]
    /\ UNCHANGED <<phase, selectedImageUri, nextId, now, pollVars, simVars, genVars>>

reset ==
    /\ clips' = <<>>
    /\ phase' = "camera"
    /\ selectedImageUri' = NULL
    /\ ret' = [op |-> "reset"]
    /\ UNCHANGED <<nextId, now, pollVars, simVars, genVars>>

CallGetLastClip ==
    /\ ret' = [op |-> "getLastClip", val |-> getLastClip(clips)]
    /\ UNCHANGED <<clips, phase, selectedImageUri, nextId, now, pollVars, simVars, genVars>>

CallGetContextPrompt(p) ==
    /\ ret' = [op |-> "getContextPrompt", arg |-> p,
               val |-> getContextPrompt(clips, p)]
    /\ UNCHANGED <<clips, phase, selectedImageUri, nextId, now, pollVars, simVars, genVars>>

StoreNext ==
    \/ \E i \in Images, p \in Prompts : addClip(i, p)
    \/ \E id \in 1..MaxIds, u \in StatusUpdates : updateClip(id, u)
    \/ \E p \in Phase : setPhase(p)
    \/ \E uri \in Images : setSelectedImage(uri)
    \/ reset
    \/ CallGetLastClip
    \/ \E p \in Prompts : CallGetContextPrompt(p)

----------------------------------------------------------------------------
(* Time *)

\* milliseconds to clock units: 8568.3 ms, the fifth delay, is exact
Ms(n) == n * 10

\* Date.now()
DateNow(t) == t \div 10

LatencyStepMs == 4000

\* Date.now() when the model starts
StartMs == 1000

Jitters == {Ms(j) : j \in 0..MaxJitterMs}
Latencies == {Ms(k * LatencyStepMs) : k \in 0..MaxLatencySteps}

----------------------------------------------------------------------------
(* Polling loop: pollUntilDone *)

MAX_POLL_TIMEOUT == 5 * 60 * 1000
InitialDelayMs == 3000
MaxDelayMs == 10000

Terminal == {"Succeeded", "Failed", "Cancelled", "TimedOut"}

VideoUrls == {"url1"}

\* a string or undefined taken as a condition: undefined, null and the
\* empty string count as false
Truthy(x) == x \notin {NULL, ""}

\* what one checkStatus call can come back with
Processing == [kind |-> "json", status |-> "processing", videoUrl |-> NULL]
Completed(u) == [kind |-> "json", status |-> "completed", videoUrl |-> u]
ProviderFailed == [kind |-> "json", status |-> "failed", videoUrl |-> NULL]
StatusCheckFailed == [kind |-> "throw", status |-> NULL, videoUrl |-> NULL]

CheckResults ==
    {Processing, ProviderFailed, StatusCheckFailed, Completed(NULL),
     Completed("")}
    \cup {Completed(u) : u \in VideoUrls}

PollIdle ==
    /\ pollPc = "idle"
    /\ pollOut = NULL
    /\ delay = 0
    /\ startTime = 0
    /\ pollTask = NULL
    /\ checkCalls = 0
    /\ sleepCount = 0
    /\ lastLabel = NULL

\* Mutant: the delay is not capped
Backoff_Uncapped(d) == (d * 13) \div 10

\* delay = Math.min(delay * 1.3, maxDelay)
Backoff(d) == Min((d * 13) \div 10, Ms(MaxDelayMs))

\* signal?.aborted, read at the top of the loop
AbortedBeforeSleep(a) == a

\* Mutant: the signal is not read again after the sleep
AbortedAfterSleep_NotRead(a) == FALSE

\* signal?.aborted, read after the sleep
AbortedAfterSleep(a) == a

\* Mutant: the loop has no time budget
TimedOutAt_Never(t, start) == FALSE

\* Mutant: the budget is taken in seconds
TimedOutAt_Seconds(t, start) == DateNow(t) - start > 5 * 60

\* Date.now() - startTime > MAX_POLL_TIMEOUT
TimedOutAt(t, start) == DateNow(t) - start > MAX_POLL_TIMEOUT

\* top of the while loop, up to the start of the sleep, with delay d at time t
LoopTop(d, t, start, a) ==
    /\ delay' = d
    /\ IF AbortedBeforeSleep(a)
       THEN /\ pollPc' = "Cancelled"
            /\ pollOut' = "Generation cancelled"
            /\ sleepCount' = sleepCount
       ELSE IF TimedOutAt(t, start)
       THEN /\ pollPc' = "TimedOut"
            /\ pollOut' = "Generation timed out"
            /\ sleepCount' = sleepCount
       ELSE /\ pollPc' = "sleeping"
            /\ pollOut' = pollOut
            /\ sleepCount' = sleepCount + 1

\* Mutant: two checkStatus calls are issued after one sleep
AfterSleep_ChecksTwice(a) ==
    IF AbortedAfterSleep(a)
    THEN /\ pollPc' = "Cancelled"
         /\ pollOut' = "Generation cancelled"
         /\ checkCalls' = checkCalls
    ELSE /\ pollPc' = "checking"
         /\ pollOut' = pollOut
         /\ checkCalls' = checkCalls + 2

\* after the sleep resolved: re-check the signal, then call checkStatus
AfterSleep(a) ==
    IF AbortedAfterSleep(a)
    THEN /\ pollPc' = "Cancelled"
         /\ pollOut' = "Generation cancelled"
         /\ checkCalls' = checkCalls
    ELSE /\ pollPc' = "checking"
         /\ pollOut' = pollOut
         /\ checkCalls' = checkCalls + 1

\* pollUntilDone(taskId, onStatusUpdate, signal), up to its first await
pollUntilDone(task) ==
    /\ pollPc = "idle"
    /\ pollTask' = task
    /\ startTime' = DateNow(now)
    /\ LoopTop(Ms(InitialDelayMs), now, DateNow(now), aborted)
    /\ UNCHANGED <<now, aborted, checkCalls, lastLabel>>

PollStart(task) ==
    /\ pollUntilDone(task)
    /\ UNCHANGED <<storeVars, simVars, genVars>>

\* the sleep's timer fires, j late, and the loop runs up to checkStatus
SleepResolves(j) ==
    /\ pollPc = "sleeping"
    /\ now' = now + delay + j
    /\ AfterSleep(aborted)
    /\ UNCHANGED <<aborted, delay, startTime, pollTask, sleepCount, lastLabel>>

TimerFires(j) ==
    /\ SleepResolves(j)
    /\ UNCHANGED <<storeVars, simVars, genVars>>

\* Mutant: the callback is not called with the status failed
StatusArrives_SilentFailure(r, lat) ==
    /\ pollPc = "checking"
    /\ now' = now + lat
    /\ IF r.kind = "throw"
       THEN /\ pollPc' = "Failed"
            /\ pollOut' = "Status check failed"
            /\ UNCHANGED <<delay, sleepCount, lastLabel>>
       ELSE /\ lastLabel' = IF r.status = "failed" THEN lastLabel ELSE r.status
            /\ IF r.status = "completed" /\ Truthy(r.videoUrl)
               THEN /\ pollPc' = "Succeeded"
                    /\ pollOut' = r.videoUrl
                    /\ UNCHANGED <<delay, sleepCount>>
               ELSE IF r.status = "failed"
               THEN /\ pollPc' = "Failed"
                    /\ pollOut' = "Video generation failed"
                    /\ UNCHANGED <<delay, sleepCount>>
               ELSE LoopTop(Backoff(delay), now + lat, startTime, aborted)
    /\ UNCHANGED <<aborted, startTime, pollTask, checkCalls>>

\* Mutant: completed ends the loop whether or not a video url came with it
StatusArrives_AcceptsNoUrl(r, lat) ==
    /\ pollPc = "checking"
    /\ now' = now + lat
    /\ IF r.kind = "throw"
       THEN /\ pollPc' = "Failed"
            /\ pollOut' = "Status check failed"
            /\ UNCHANGED <<delay, sleepCount, lastLabel>>
       ELSE /\ lastLabel' = r.status
            /\ IF r.status = "completed"
               THEN /\ pollPc' = "Succeeded"
                    /\ pollOut' = r.videoUrl
                    /\ UNCHANGED <<delay, sleepCount>>
               ELSE IF r.status = "failed"
               THEN /\ pollPc' = "Failed"
                    /\ pollOut' = "Video generation failed"
                    /\ UNCHANGED <<delay, sleepCount>>
               ELSE LoopTop(Backoff(delay), now + lat, startTime, aborted)
    /\ UNCHANGED <<aborted, startTime, pollTask, checkCalls>>

\* Mutant: a checkStatus call that throws is taken as processing
StatusArrives_ToleratesThrow(r, lat) ==
    /\ pollPc = "checking"
    /\ now' = now + lat
    /\ IF r.kind = "throw"
       THEN /\ LoopTop(Backoff(delay), now + lat, startTime, aborted)
            /\ UNCHANGED lastLabel
       ELSE /\ lastLabel' = r.status
            /\ IF r.status = "completed" /\ Truthy(r.videoUrl)
               THEN /\ pollPc' = "Succeeded"
                    /\ pollOut' = r.videoUrl
                    /\ UNCHANGED <<delay, sleepCount>>
               ELSE IF r.status = "failed"
               THEN /\ pollPc' = "Failed"
                    /\ pollOut' = "Video generation failed"
                    /\ UNCHANGED <<delay, sleepCount>>
               ELSE LoopTop(Backoff(delay), now + lat, startTime, aborted)
    /\ UNCHANGED <<aborted, startTime, pollTask, checkCalls>>

\* Mutant: the time budget is tested when the answer arrives, before the
\* answer is looked at
StatusArrives_DeadlineFirst(r, lat) ==
    /\ pollPc = "checking"
    /\ now' = now + lat
    /\ IF r.kind = "throw"
       THEN /\ pollPc' = "Failed"
            /\ pollOut' = "Status check failed"
            /\ UNCHANGED <<delay, sleepCount, lastLabel>>
       ELSE /\ lastLabel' = r.status
            /\ IF TimedOutAt(now + lat, startTime)
               THEN /\ pollPc' = "TimedOut"
                    /\ pollOut' = "Generation timed out"
                    /\ UNCHANGED <<delay, sleepCount>>
               ELSE IF r.status = "completed" /\ Truthy(r.videoUrl)
               THEN /\ pollPc' = "Succeeded"
                    /\ pollOut' = r.videoUrl
                    /\ UNCHANGED <<delay, sleepCount>>
               ELSE IF r.status = "failed"
               THEN /\ pollPc' = "Failed"
                    /\ pollOut' = "Video generation failed"
                    /\ UNCHANGED <<delay, sleepCount>>
               ELSE LoopTop(Backoff(delay), now + lat, startTime, aborted)
    /\ UNCHANGED <<aborted, startTime, pollTask, checkCalls>>

\* the checkStatus call comes back with r after lat, and the loop runs up
\* to its next sleep
StatusArrives(r, lat) ==
    /\ pollPc = "checking"
    /\ now' = now + lat
    /\ IF r.kind = "throw"
       THEN /\ pollPc' = "Failed"
            /\ pollOut' = "Status check failed"
            /\ UNCHANGED <<delay, sleepCount, lastLabel>>
       ELSE /\ lastLabel' = r.status
            /\ IF r.status = "completed" /\ Truthy(r.videoUrl)
               THEN /\ pollPc' = "Succeeded"
                    /\ pollOut' = r.videoUrl
                    /\ UNCHANGED <<delay, sleepCount>>
               ELSE IF r.status = "failed"
               THEN /\ pollPc' = "Failed"
                    /\ pollOut' = "Video generation failed"
                    /\ UNCHANGED <<delay, sleepCount>>
               ELSE LoopTop(Backoff(delay), now + lat, startTime, aborted)
    /\ UNCHANGED <<aborted, startTime, pollTask, checkCalls>>

CheckReturns(r, lat) ==
    /\ StatusArrives(r, lat)
    /\ UNCHANGED <<storeVars, simVars, genVars>>

\* Mutant: the sleep has no abort listener, its timer runs to the end
abort_WaitsForTimer(e) ==
    /\ ~aborted
    /\ aborted' = TRUE
    /\ CASE pollPc = "checking" ->
              /\ now' = now + e
              /\ pollPc' = "Cancelled"
              /\ pollOut' = "AbortError"
              /\ UNCHANGED checkCalls
         [] OTHER ->
              /\ e = 0
              /\ UNCHANGED <<now, pollPc, pollOut, checkCalls>>
    /\ UNCHANGED <<delay, startTime, pollTask, sleepCount, lastLabel>>

\* controller.abort() reaches pollUntilDone: a sleep resolves at once after
\* e of it has passed, a checkStatus fetch in flight rejects
abort(e) ==
    /\ ~aborted
    /\ aborted' = TRUE
    /\ CASE pollPc = "sleeping" ->
              /\ e < delay
              /\ now' = now + e
              /\ AfterSleep(TRUE)
         [] pollPc = "checking" ->
              /\ now' = now + e
              /\ pollPc' = "Cancelled"
              /\ pollOut' = "AbortError"
              /\ UNCHANGED checkCalls
         [] OTHER ->
              /\ e = 0
              /\ UNCHANGED <<now, pollPc, pollOut, checkCalls>>
    /\ UNCHANGED <<delay, startTime, pollTask, sleepCount, lastLabel>>

PollAbort(e) ==
    /\ abort(e)
    /\ UNCHANGED <<storeVars, simVars, genVars>>

AbortDelays == {0, Ms(1500)}

----------------------------------------------------------------------------
(* Strings of characters: startsWith, split, template literals, parseInt *)

Digit == <<"0", "1", "2", "3", "4", "5", "6", "7", "8", "9">>

DigitValue(c) == (CHOOSE i \in 1..10 : Digit[i] = c) - 1

IsDigit(c) == \E i \in 1..10 : Digit[i] = c

\* `${n}` for an integer n
RECURSIVE NatToString(_)
NatToString(n) ==
    IF n < 10 THEN <<Digit[n + 1]>>
    ELSE NatToString(n \div 10) \o <<Digit[(n % 10) + 1]>>

NumToString(n) == IF n < 0 THEN <<"-">> \o NatToString(-n) ELSE NatToString(n)

\* String.prototype.startsWith
StartsWith(s, t) == Len(s) >= Len(t) /\ SubSeq(s, 1, Len(t)) = t

\* String.prototype.split(sep), sep not empty
RECURSIVE Split(_, _)
Split(s, sep) ==
    IF ~Includes(s, sep) THEN <<s>>
    ELSE LET i == CHOOSE k \in 1..Len(s) :
                      /\ OccursAt(s, sep, k)
                      /\ \A h \in 1..(k - 1) : ~OccursAt(s, sep, h)
         IN  <<SubSeq(s, 1, i - 1)>>
                 \o Split(SubSeq(s, i + Len(sep), Len(s)), sep)

NaN == [isNaN |-> TRUE, n |-> 0]
Num(n) == [isNaN |-> FALSE, n |-> n]

RECURSIVE SkipSpaces(_)
SkipSpaces(s) ==
    IF s # <<>> /\ s[1] = " " THEN SkipSpaces(Tail(s)) ELSE s

RECURSIVE LeadingDigits(_)
LeadingDigits(s) ==
    IF s # <<>> /\ IsDigit(s[1]) THEN <<s[1]>> \o LeadingDigits(Tail(s))
    ELSE <<>>

RECURSIVE DigitsValue(_)
DigitsValue(ds) ==
    IF ds = <<>> THEN 0
    ELSE DigitsValue(SubSeq(ds, 1, Len(ds) - 1)) * 10 + DigitValue(ds[Len(ds)])

\* parseInt(s, 10): leading white space, an optional sign, then the longest
\* run of decimal digits; NaN when there is no digit
ParseInt10(s) ==
    LET t == SkipSpaces(s)
        neg == t # <<>> /\ t[1] = "-"
        u == IF t # <<>> /\ t[1] \in {"-", "+"} THEN Tail(t) ELSE t
        ds == LeadingDigits(u)
    IN  IF ds = <<>> THEN NaN
        ELSE Num(IF neg THEN -DigitsValue(ds) ELSE DigitsValue(ds))

----------------------------------------------------------------------------
(* Dummy-mode worker: handleGenerateDummy, handleStatusDummy *)

DUMMY_DELAY_MS == 8000

Tag == <<"d", "u", "m", "m", "y", "_">>

WorkerOrigin == "http://10.0.2.2:8787"

\* Response.json(body, { status })
Response(http, body) == [http |-> http, body |-> body]

\* response.ok
Ok(r) == r.http >= 200 /\ r.http <= 299

\* request bodies of POST /generate
Bodies ==
    {[image |-> i, prompt |-> p] : i \in {"", "b64"}, p \in {<<>>, <<"a">>}}

\* taskId = `dummy_${readyAt}`
EncodeTaskId(readyAt) == Tag \o NumToString(readyAt)

\* Mutant: the whole id is parsed
DecodeReadyAt_WholeId(taskId) == ParseInt10(taskId)

\* parseInt(taskId.split('dummy_')[1], 10)
DecodeReadyAt(taskId) == ParseInt10(Split(taskId, Tag)[2])

\* Mutant: the task is ready as soon as it is submitted
handleGenerateDummy_NoDelay(body, t) ==
    IF body.image = "" \/ body.prompt = <<>>
    THEN Response(400, [error |-> "image and prompt required"])
    ELSE Response(200, [taskId |-> EncodeTaskId(DateNow(t))])

handleGenerateDummy(body, t) ==
    IF body.image = "" \/ body.prompt = <<>>
    THEN Response(400, [error |-> "image and prompt required"])
    ELSE Response(200, [taskId |-> EncodeTaskId(DateNow(t) + DUMMY_DELAY_MS)])

\* Mutant: the job is still processing at its ready-at time
StillProcessing_Inclusive(t, readyAt) == DateNow(t) <= readyAt

\* Date.now() < readyAt
StillProcessing(t, readyAt) == DateNow(t) < readyAt

\* Mutant: a NaN ready-at time is not rejected
IsNaN_Never(x) == FALSE

\* isNaN(readyAt)
IsNaN(x) == x.isNaN

\* Mutant: the worker looks the task up among the jobs it has issued
handleStatusDummy_Stored(taskId, workerOrigin, t) ==
    IF taskId \notin {j.taskId : j \in simJobs}
    THEN Response(404, [error |-> "Unknown task"])
    ELSE IF StillProcessing(t, DecodeReadyAt(taskId).n)
    THEN Response(200, [status |-> "processing"])
    ELSE Response(200, [status |-> "completed",
                        videoUrl |-> <<workerOrigin, "/dummy-video">>])

handleStatusDummy(taskId, workerOrigin, t) ==
    IF ~StartsWith(taskId, Tag)
    THEN Response(404, [error |-> "Unknown task"])
    ELSE LET readyAt == DecodeReadyAt(taskId)
         IN  IF IsNaN(readyAt)
             THEN Response(400, [error |-> "Invalid task ID"])
             \* a comparison with NaN is false
             ELSE IF ~readyAt.isNaN /\ StillProcessing(t, readyAt.n)
             THEN Response(200, [status |-> "processing"])
             ELSE Response(200, [status |-> "completed",
                                 videoUrl |-> <<workerOrigin, "/dummy-video">>])

\* checkStatus of the client, applied to the worker's response
checkStatus(response) ==
    IF ~Ok(response) THEN [kind |-> "throw", error |-> "Status check failed"]
    ELSE [kind |-> "json", json |-> response.body]

\* identifiers no /generate request returned
OtherIds ==
    {<<"x">>,
     Tag \o <<"9">>,
     Tag \o <<"1", "2", "x">>,
     Tag \o <<" ", "9">>,
     <<"7", "7">>,
     <<"d", "u", "m", "m", "y", "9">>,
     <<"D", "u", "m", "m", "y", "_", "9">>,
     <<"x">> \o Tag \o <<"9">>,
     Tag,
     Tag \o <<"x">>,
     Tag \o <<"x", "9">>,
     Tag \o <<"-">>,
     Tag \o Tag \o <<"9">>}

\* isolates that serve the worker's requests
Instances == {1, 2}

SimIdle ==
    /\ simJobs = {}
    /\ simLast = [req |-> "none"]
    /\ ticks = 0
    /\ simPrev = [req |-> "none"]
    /\ simSeen = [i \in Instances |-> {}]

\* POST /generate reaches a worker instance
SimGenerate(body) ==
    /\ Cardinality(simJobs) < MaxJobs
    /\ LET r == handleGenerateDummy(body, now)
       IN  /\ simLast' = [req |-> "generate", resp |-> r]
           /\ simJobs' = IF Ok(r)
                         THEN simJobs \cup {[T |-> DateNow(now),
                                             taskId |-> r.body.taskId]}
                         ELSE simJobs
    /\ UNCHANGED <<now, ticks, simPrev, simSeen, storeVars, aborted, pollVars,
                   genVars>>

\* GET /status/:taskId reaches a worker instance
SimStatus(taskId) ==
    /\ LET r == handleStatusDummy(taskId, WorkerOrigin, now)
       IN  simLast' = [req |-> "status", taskId |-> taskId, resp |-> r,
                       client |-> checkStatus(r)]
    /\ UNCHANGED <<now, ticks, simJobs, simPrev, simSeen, storeVars, aborted,
                   pollVars, genVars>>

TimeSteps == {Ms(1), Ms(DUMMY_DELAY_MS - 1)}

\* time passes between requests
SimTick(d) ==
    /\ ticks < MaxTicks
    /\ ticks' = ticks + 1
    /\ now' = now + d
    /\ simLast' = [req |-> "none"]
    /\ simPrev' = [req |-> "none"]
    /\ UNCHANGED <<simJobs, simSeen, storeVars, aborted, pollVars, genVars>>

\* POST /generate reaches instance i
FleetGenerate(i, body) ==
    /\ Cardinality(simJobs) < MaxJobs
    /\ LET r == handleGenerateDummy(body, now)
       IN  /\ simLast' = [req |-> "generate", inst |-> i, resp |-> r]
           /\ simJobs' = IF Ok(r)
                         THEN simJobs \cup {[T |-> DateNow(now),
                                             taskId |-> r.body.taskId]}
                         ELSE simJobs
           /\ simSeen' = IF Ok(r)
                         THEN [simSeen EXCEPT ![i] = @ \cup {r.body.taskId}]
                         ELSE simSeen
    /\ simPrev' = IF simLast.req = "status" THEN simLast ELSE simPrev
    /\ UNCHANGED <<now, ticks, storeVars, aborted, pollVars, genVars>>

\* GET /status/:taskId reaches instance i
FleetStatus(i, taskId) ==
    /\ LET r == handleStatusDummy(taskId, WorkerOrigin, now)
       IN  simLast' = [req |-> "status", inst |-> i, taskId |-> taskId,
                       resp |-> r, client |-> checkStatus(r)]
    /\ simPrev' = IF simLast.req = "status" THEN simLast ELSE simPrev
    /\ UNCHANGED <<now, ticks, simJobs, simSeen, storeVars, aborted, pollVars,
                   genVars>>

\* the identifiers asked about: issued ones, the one a submission made now
\* would get, and one that no submission returns
FleetIds(t) ==
    {j.taskId : j \in simJobs}
    \cup {EncodeTaskId(DateNow(t) + DUMMY_DELAY_MS)}
    \cup {Tag \o <<"9">>}

----------------------------------------------------------------------------
(* The worker in real mode: GET /status/:taskId answered from the provider *)

\* task_status values of the provider; null stands for a body without data
TaskStatuses == {"submitted", "processing", "succeed", "failed", "paused", NULL}

\* what the provider's task endpoint can answer
ProviderResults ==
    {[http |-> 500, task_status |-> NULL, url |-> NULL]}
    \cup {[http |-> 200, task_status |-> st, url |-> u] :
             st \in TaskStatuses, u \in VideoUrls \cup {NULL}}
    \cup {[http |-> 200, task_status |-> "succeed", url |-> ""]}

\* Mutant: a status that is not recognised is reported as failed
handleStatusReal_FailClosed(result) ==
    IF ~Ok(result)
    THEN Response(result.http, [error |-> "provider error"])
    ELSE LET simpleStatus ==
                 CASE result.task_status = "succeed" -> "completed"
                   [] result.task_status \in {"submitted", "processing"}
                        -> "processing"
                   [] OTHER -> "failed"
         IN  Response(200, [status |-> simpleStatus,
                            videoUrl |-> IF simpleStatus = "completed"
                                         THEN result.url ELSE NULL])

handleStatusReal(result) ==
    IF ~Ok(result)
    THEN Response(result.http, [error |-> "provider error"])
    ELSE LET status == IF result.task_status = NULL THEN "unknown"
                       ELSE result.task_status
             simpleStatus ==
                 CASE status = "succeed" -> "completed"
                   [] status = "failed" -> "failed"
                   [] OTHER -> "processing"
         IN  Response(200, [status |-> simpleStatus,
                            videoUrl |-> IF simpleStatus = "completed"
                                         THEN result.url ELSE NULL])

\* what the provider's create-task endpoint can answer; null stands for a
\* body without data.task_id
ProviderTasks ==
    {[http |-> 500, task_id |-> NULL],
     [http |-> 200, task_id |-> NULL],
     [http |-> 200, task_id |-> ""]}
    \cup {[http |-> 200, task_id |-> t] : t \in TaskIds}

\* Mutant: the worker passes on whatever task_id it finds
handleGenerateReal_PassesThrough(body, result) ==
    IF body.image = "" \/ body.prompt = <<>>
    THEN Response(400, [error |-> "image and prompt required"])
    ELSE IF ~Ok(result)
    THEN Response(result.http, [error |-> "Kling API error"])
    ELSE Response(200, [taskId |-> result.task_id])

handleGenerateReal(body, result) ==
    IF body.image = "" \/ body.prompt = <<>>
    THEN Response(400, [error |-> "image and prompt required"])
    ELSE IF ~Ok(result)
    THEN Response(result.http, [error |-> "Kling API error"])
    ELSE IF result.task_id \in {NULL, ""}
    THEN Response(500, [error |-> "No task_id returned"])
    ELSE Response(200, [taskId |-> result.task_id])

\* generateVideo of the client, applied to the worker's response; a is the
\* state of the signal
generateVideo(response, a) ==
    IF a THEN [kind |-> "throw", error |-> "AbortError"]
    ELSE IF ~Ok(response) THEN [kind |-> "throw", error |-> "Generation failed"]
    ELSE [kind |-> "json", taskId |-> response.body.taskId]

\* what pollUntilDone reads of the value of checkStatus
AsCheckResult(c) ==
    IF c.kind = "throw" THEN StatusCheckFailed
    ELSE [kind |-> "json", status |-> c.json.status,
          videoUrl |-> c.json.videoUrl]

\* the status check of a polling client is answered by the worker from the
\* provider's result, after lat
RealStatusArrives(result, lat) ==
    /\ LET r == handleStatusReal(result)
       IN  /\ simLast' = [req |-> "statusReal", result |-> result, resp |-> r,
                          client |-> checkStatus(r)]
           /\ StatusArrives(AsCheckResult(checkStatus(r)), lat)
    /\ UNCHANGED <<storeVars, genVars, simJobs, ticks, simPrev, simSeen>>

----------------------------------------------------------------------------
(* pollUntilDone against the worker in dummy mode *)

\* what pollUntilDone reads of the value of checkStatus in dummy mode: the
\* body has no videoUrl while the job is processing, and the url is the
\* string the template literal makes
AsDummyCheckResult(c) ==
    IF c.kind = "throw" THEN StatusCheckFailed
    ELSE [kind |-> "json", status |-> c.json.status,
          videoUrl |-> IF "videoUrl" \in DOMAIN c.json
                       THEN c.json.videoUrl[1] \o c.json.videoUrl[2]
                       ELSE NULL]

\* the client polls for a job that POST /generate has returned
DummyPollStart(taskId) ==
    /\ taskId \in {j.taskId : j \in simJobs}
    /\ PollStart(taskId)

\* time passes between the submission and the entry into pollUntilDone
DummyWait(d) ==
    /\ pollPc = "idle"
    /\ SimTick(d)

\* the status check of the polling client is answered by the worker in
\* dummy mode, which reads its clock when the request arrives (early) or
\* just before the answer is back, lat later
DummyStatusArrives(lat, early) ==
    /\ LET at == IF early THEN now ELSE now + lat
           r == handleStatusDummy(pollTask, WorkerOrigin, at)
       IN  /\ simLast' = [req |-> "status", taskId |-> pollTask, resp |-> r,
                          client |-> checkStatus(r), at |-> DateNow(at)]
           /\ StatusArrives(AsDummyCheckResult(checkStatus(r)), lat)
    /\ UNCHANGED <<storeVars, genVars, simJobs, ticks, simPrev, simSeen>>

----------------------------------------------------------------------------
(* Generation orchestration: MainScreen of app/app/index.tsx.  A step is   *)
(* what runs between two awaits.  Time is counted from the start of the    *)
(* newest attempt: the orchestration reads no absolute time.               *)

\* no attempt is running: startGeneration's locals do not exist
NoAttempt ==
    /\ genPc = "idle"
    /\ genClipId = 0
    /\ genImage = NULL
    /\ fullPrompt = <<>>
    /\ preClips = <<>>

\* startGeneration has run to its end: its locals and its controller are
\* gone
AttemptEnds ==
    /\ genPc' = "idle"
    /\ aborted' = FALSE
    /\ genClipId' = 0
    /\ genImage' = NULL
    /\ fullPrompt' = <<>>
    /\ preClips' = <<>>
    /\ cancelAt' = NULL

\* pollUntilDone has settled: its locals are gone
PollEnds ==
    /\ pollPc' = "idle"
    /\ pollOut' = NULL
    /\ delay' = 0
    /\ startTime' = 0
    /\ pollTask' = NULL
    /\ checkCalls' = 0
    /\ sleepCount' = 0
    /\ lastLabel' = NULL

\* the modal state: hidden, or shown with a title and a message
NoModal == [visible |-> FALSE, title |-> "", message |-> ""]

showModal(title, message) ==
    [visible |-> TRUE, title |-> title, message |-> message]

GenIdle ==
    /\ NoAttempt
    /\ promptText = <<>>
    /\ genStatus = "Starting..."
    /\ modal = NoModal
    /\ controllerRef = NULL
    /\ imagePending = FALSE
    /\ older = {}
    /\ cancelAt = NULL
    /\ lastEnd = [id |-> 0, how |-> "none", aborted |-> FALSE]
    /\ files = {}

\* String.prototype.trim
RECURSIVE TrimEnd(_)
TrimEnd(s) ==
    IF s # <<>> /\ s[Len(s)] = " " THEN TrimEnd(SubSeq(s, 1, Len(s) - 1))
    ELSE s

Trim(s) == TrimEnd(SkipSpaces(s))

\* what the user can have typed
TypedTexts == {<<" ", "a", " ">>, <<" ">>}

\* downloadVideo: the file clip_<clipId>.mp4 of the cache directory
VideoFile(id) == "clip_" \o ToString(id) \o ".mp4"

\* VideoThumbnails.getThumbnailAsync: a new image file
FrameFile(id) == "frame_" \o ToString(id) \o ".jpg"

\* the lastFrameUri of getLastClip(), or null
LastFrameOf(cs) ==
    IF getLastClip(cs) = NoClip THEN NULL ELSE getLastClip(cs)[1].lastFrameUri

\* how generateVideo can end
SubmitResults ==
    {[kind |-> "json", taskId |-> t] : t \in TaskIds}
    \cup {[kind |-> "throw", error |-> "Generation failed"],
          [kind |-> "throw", error |-> "Network request failed"],
          [kind |-> "throw", error |-> "JSON Parse error"],
          [kind |-> "throw", error |-> "AbortError"]}

\* the newest attempt is between the settling of pollUntilDone and the
\* resumption of startGeneration: these run in one turn, nothing comes between
Settling == genPc = "polling" /\ pollPc \in Terminal

\* takePicture, up to its await of takePictureAsync
takePicture ==
    /\ phase = "camera"
    /\ ~Settling
    /\ ~imagePending
    /\ imagePending' = TRUE
    /\ UNCHANGED <<storeVars, now, aborted, pollVars, simVars, genPc, genClipId,
                   genImage, fullPrompt, promptText, genStatus, modal,
                   controllerRef, preClips, older,
                   cancelAt, lastEnd, files>>

\* pickFromGallery, up to its await of launchImageLibraryAsync; the button
\* is on the camera screen and on the prompt screen
pickFromGallery ==
    /\ phase \in {"camera", "prompt"}
    /\ phase = "prompt" => ~modal.visible
    /\ ~Settling
    /\ ~imagePending
    /\ imagePending' = TRUE
    /\ UNCHANGED <<storeVars, now, aborted, pollVars, simVars, genPc, genClipId,
                   genImage, fullPrompt, promptText, genStatus, modal,
                   controllerRef, preClips, older,
                   cancelAt, lastEnd, files>>

\* takePictureAsync or launchImageLibraryAsync settles, with an image or
\* without one (cancelled, rejected); takePicture and pickFromGallery resume
ImageResolves(img) ==
    /\ imagePending
    /\ ~Settling
    /\ imagePending' = FALSE
    /\ IF img # NULL
       THEN /\ selectedImageUri' = img
            /\ phase' = "prompt"
       ELSE UNCHANGED <<selectedImageUri, phase>>
    /\ UNCHANGED <<clips, nextId, ret, now, aborted, pollVars, simVars, genPc,
                   genClipId, genImage, fullPrompt, promptText, genStatus,
                   modal, controllerRef, preClips, older,
                   cancelAt, lastEnd, files>>

useLastFrame ==
    /\ phase = "camera"
    /\ ~Settling
    /\ LastFrameOf(clips) # NULL
    /\ selectedImageUri' = LastFrameOf(clips)
    /\ phase' = "prompt"
    /\ UNCHANGED <<clips, nextId, ret, now, aborted, pollVars, simVars, genVars>>

\* the text input's onChangeText
setPrompt(text) ==
    /\ phase = "prompt"
    /\ ~modal.visible
    /\ ~Settling
    /\ promptText # text
    /\ promptText' = text
    /\ UNCHANGED <<storeVars, now, aborted, pollVars, simVars, genPc, genClipId,
                   genImage, fullPrompt, genStatus, modal, controllerRef,
                   preClips, imagePending, older,
                   cancelAt, lastEnd, files>>

\* startGeneration, up to the await of generateVideo.  An attempt that is
\* still running goes on with its own controller, clipId and poll loop
StartAttempt ==
    /\ phase = "prompt"
    /\ ~modal.visible
    /\ ~Settling
    /\ selectedImageUri # NULL
    /\ Trim(promptText) # <<>>
    /\ genPc # "idle" => Cardinality(older) < MaxOlder
    /\ older' = IF genPc = "idle" THEN older
                ELSE older \cup {[clipId |-> genClipId, pc |-> genPc,
                                  aborted |-> aborted]}
    /\ controllerRef' = "controller"
    /\ aborted' = FALSE
    /\ fullPrompt' = getContextPrompt(clips, Trim(promptText))
    /\ preClips' = clips
    /\ clips' = Append(clips,
                       NewClip(nextId, selectedImageUri, Trim(promptText)))
    /\ nextId' = nextId + 1
    /\ genClipId' = nextId
    /\ genImage' = selectedImageUri
    /\ phase' = "generating"
    /\ genStatus' = "Starting generation..."
    /\ genPc' = "submitting"
    /\ now' = Ms(StartMs)
    /\ PollEnds
    /\ cancelAt' = NULL
    /\ UNCHANGED <<selectedImageUri, ret, promptText, modal, imagePending,
                   lastEnd, files, simVars>>

\* the first MaxAttempts calls of startGeneration
startGeneration ==
    /\ nextId <= MaxAttempts
    /\ StartAttempt

\* Mutant: the catch block does not patch the record
FailEffects_NoPatch(id, a, message) ==
    /\ clips' = clips
    /\ lastEnd' = [id |-> id, how |-> message, aborted |-> a]
    /\ modal' = IF ~a THEN showModal("Generation Failed", message) ELSE modal
    /\ phase' = "prompt"
    /\ controllerRef' = NULL

\* Mutant: the catch block alerts whatever the signal says
FailEffects_AlwaysAlerts(id, a, message) ==
    /\ clips' = MapUpdate(clips, id, [status |-> "failed"])
    /\ lastEnd' = [id |-> id, how |-> message, aborted |-> a]
    /\ modal' = showModal("Generation Failed", message)
    /\ phase' = "prompt"
    /\ controllerRef' = NULL

\* the catch and finally blocks of startGeneration, run by the attempt that
\* owns record id and a controller whose signal reads a
FailEffects(id, a, message) ==
    /\ clips' = MapUpdate(clips, id, [status |-> "failed"])
    /\ lastEnd' = [id |-> id, how |-> message, aborted |-> a]
    /\ modal' = IF ~a THEN showModal("Generation Failed", message) ELSE modal
    /\ phase' = "prompt"
    /\ controllerRef' = NULL

\* Mutant: the done patch leaves out the frame
DoneEffects_NoFrame(id, a) ==
    /\ clips' = MapUpdate(clips, id,
                          [videoUri |-> VideoFile(id), status |-> "done"])
    /\ promptText' = <<>>
    /\ phase' = "preview"
    /\ controllerRef' = NULL
    /\ lastEnd' = [id |-> id, how |-> "done", aborted |-> a]
    /\ files' = files \cup {FrameFile(id)}

\* Mutant: the signal is read before the record is patched to done
DoneEffects_HonoursCancel(id, a) ==
    /\ clips' = IF a THEN MapUpdate(clips, id, [status |-> "failed"])
                ELSE MapUpdate(clips, id,
                               [videoUri |-> VideoFile(id),
                                lastFrameUri |-> FrameFile(id),
                                status |-> "done"])
    /\ promptText' = IF a THEN promptText ELSE <<>>
    /\ phase' = IF a THEN "prompt" ELSE "preview"
    /\ controllerRef' = NULL
    /\ lastEnd' = [id |-> id, how |-> IF a THEN "Generation cancelled"
                                      ELSE "done", aborted |-> a]
    /\ files' = files \cup {FrameFile(id)}

\* the end of the try block of startGeneration, and its finally block
DoneEffects(id, a) ==
    /\ clips' = MapUpdate(clips, id,
                          [videoUri |-> VideoFile(id),
                           lastFrameUri |-> FrameFile(id),
                           status |-> "done"])
    /\ promptText' = <<>>
    /\ phase' = "preview"
    /\ controllerRef' = NULL
    /\ lastEnd' = [id |-> id, how |-> "done", aborted |-> a]
    /\ files' = files \cup {FrameFile(id)}

\* Mutant: a failed status check makes the attempt submit again
Catch_Resubmits(message) ==
    IF message = "Status check failed"
    THEN /\ genPc' = "submitting"
         /\ UNCHANGED <<storeVars, aborted, genClipId, genImage, fullPrompt,
                        promptText, genStatus, modal, controllerRef, preClips,
                        imagePending, older, cancelAt, lastEnd, files>>
    ELSE /\ FailEffects(genClipId, aborted, message)
         /\ AttemptEnds
         /\ UNCHANGED <<selectedImageUri, nextId, ret, promptText, genStatus,
                        imagePending, older, files>>

\* the newest attempt fails
Catch(message) ==
    /\ FailEffects(genClipId, aborted, message)
    /\ AttemptEnds
    /\ UNCHANGED <<selectedImageUri, nextId, ret, promptText, genStatus,
                   imagePending, older, files>>

\* Mutant: a job id is written on the record before the response is looked
\* at
SubmitReturns_RecordsFirst(r) ==
    /\ genPc = "submitting"
    /\ aborted <=> (r.kind = "throw" /\ r.error = "AbortError")
    /\ IF r.kind = "throw"
       THEN /\ clips' = MapUpdate(MapUpdate(clips, genClipId,
                                            [klingTaskId |-> "task1"]),
                                  genClipId, [status |-> "failed"])
            /\ lastEnd' = [id |-> genClipId, how |-> r.error,
                           aborted |-> aborted]
            /\ modal' = IF ~aborted
                        THEN showModal("Generation Failed", r.error)
                        ELSE modal
            /\ phase' = "prompt"
            /\ controllerRef' = NULL
            /\ AttemptEnds
            /\ UNCHANGED <<selectedImageUri, nextId, ret, promptText,
                           genStatus, imagePending, older, files>>
            /\ UNCHANGED <<now, loopVars>>
       ELSE /\ clips' = MapUpdate(clips, genClipId, [klingTaskId |-> r.taskId])
            /\ genStatus' = "Generating video..."
            /\ genPc' = "polling"
            /\ pollUntilDone(r.taskId)
            /\ UNCHANGED <<phase, selectedImageUri, nextId, ret, genClipId,
                           genImage, fullPrompt, promptText, modal,
                           controllerRef, preClips, imagePending, older,
                           cancelAt, lastEnd, files>>
    /\ UNCHANGED simVars

\* generateVideo settles: it rejects when the signal is aborted; on success
\* the taskId is stored and pollUntilDone runs up to its first sleep
SubmitSettles(r) ==
    /\ genPc = "submitting"
    /\ aborted <=> (r.kind = "throw" /\ r.error = "AbortError")
    /\ IF r.kind = "throw"
       THEN /\ Catch(r.error)
            /\ UNCHANGED <<now, loopVars>>
       ELSE /\ clips' = MapUpdate(clips, genClipId, [klingTaskId |-> r.taskId])
            /\ genStatus' = "Generating video..."
            /\ genPc' = "polling"
            /\ pollUntilDone(r.taskId)
            /\ UNCHANGED <<phase, selectedImageUri, nextId, ret, genClipId,
                           genImage, fullPrompt, promptText, modal,
                           controllerRef, preClips, imagePending, older,
                   cancelAt, lastEnd, files>>

SubmitReturns(r) ==
    /\ SubmitSettles(r)
    /\ UNCHANGED simVars

\* generateVideo settles with what the worker in real mode made of the
\* provider's answer
RealSubmitReturns(result) ==
    /\ genPc = "submitting"
    /\ LET response == handleGenerateReal([image |-> "b64",
                                           prompt |-> fullPrompt], result)
       IN  /\ simLast' = [req |-> "generateReal", result |-> result,
                          resp |-> response]
           /\ SubmitSettles(generateVideo(response, aborted))
    /\ UNCHANGED <<simJobs, ticks, simPrev, simSeen>>

\* the sleep's timer fires while the app polls
GenTimerFires ==
    /\ genPc = "polling"
    /\ SleepResolves(0)
    /\ UNCHANGED <<storeVars, simVars, genVars>>

\* the status check comes back while the app polls; the onStatusUpdate
\* callback of startGeneration sets genStatus
GenCheckSettles(r) ==
    /\ genPc = "polling"
    /\ StatusArrives(r, Ms(SlowCheckMs))
    /\ genStatus' = IF r.kind = "throw" THEN genStatus
                    ELSE IF r.status = "processing" THEN "Generating video..."
                    ELSE r.status
    /\ UNCHANGED <<storeVars, genPc, genClipId, genImage, fullPrompt,
                   promptText, modal, controllerRef, preClips, imagePending,
                   older,
                   cancelAt, lastEnd, files>>

GenCheckReturns(r) ==
    /\ GenCheckSettles(r)
    /\ UNCHANGED simVars

\* the status check comes back with what the worker in real mode made of the
\* provider's answer
RealGenCheckReturns(result) ==
    /\ LET r == handleStatusReal(result)
       IN  /\ simLast' = [req |-> "statusReal", result |-> result, resp |-> r,
                          client |-> checkStatus(r)]
           /\ GenCheckSettles(AsCheckResult(checkStatus(r)))
    /\ UNCHANGED <<simJobs, ticks, simPrev, simSeen>>

\* pollUntilDone returned or threw and startGeneration resumes in the same
\* turn
PollSettles ==
    /\ Settling
    /\ IF pollPc = "Succeeded"
       THEN /\ genStatus' = "Downloading video..."
            /\ genPc' = "downloading"
            /\ UNCHANGED <<storeVars, aborted, genClipId, genImage,
                           fullPrompt, promptText, modal, controllerRef,
                           preClips, imagePending, older,
                   cancelAt, lastEnd, files>>
       ELSE Catch(pollOut)
    /\ now' = Ms(StartMs)
    /\ PollEnds
    /\ UNCHANGED simVars

\* downloadVideo settles; it does not read the signal
DownloadReturns(ok) ==
    /\ genPc = "downloading"
    /\ IF ok
       THEN /\ genPc' = "thumbnail"
            /\ files' = files \cup {VideoFile(genClipId)}
            /\ UNCHANGED <<storeVars, aborted, genClipId, genImage,
                           fullPrompt, promptText, genStatus, modal,
                           controllerRef, preClips, imagePending, older,
                           cancelAt, lastEnd>>
       ELSE Catch("Download failed")
    /\ UNCHANGED <<now, loopVars, simVars>>

\* getThumbnailAsync settles; on success the clip is patched to done
ThumbnailReturns(ok) ==
    /\ genPc = "thumbnail"
    /\ IF ok
       THEN /\ DoneEffects(genClipId, aborted)
            /\ AttemptEnds
            /\ UNCHANGED <<selectedImageUri, nextId, ret, genStatus, modal,
                           imagePending, older>>
       ELSE Catch("Thumbnail failed")
    /\ UNCHANGED <<now, loopVars, simVars>>

\* handleBackPress while generating asks before it cancels
askCancel ==
    /\ phase = "generating"
    /\ ~modal.visible
    /\ ~Settling
    /\ modal' = showModal("Cancel Generation?", "")
    /\ UNCHANGED <<storeVars, now, aborted, pollVars, simVars, genPc, genClipId,
                   genImage, fullPrompt, promptText, genStatus, controllerRef,
                   preClips, imagePending, older,
                   cancelAt, lastEnd, files>>

\* the modal's Cancel Generation button: hideModal, then cancelGeneration,
\* which is abortControllerRef.current?.abort().  The signal of a controller
\* that is already aborted does nothing more
cancelGeneration(e) ==
    /\ modal.visible
    /\ modal.title = "Cancel Generation?"
    /\ phase # "camera"
    /\ ~Settling
    /\ modal' = NoModal
    /\ IF controllerRef # NULL /\ ~aborted
       THEN abort(e)
       ELSE /\ e = 0
            /\ UNCHANGED <<now, aborted, pollVars>>
    /\ cancelAt' = IF genPc # "idle" /\ cancelAt = NULL
                   THEN IF genPc = "polling" THEN pollPc ELSE genPc
                   ELSE cancelAt
    /\ UNCHANGED <<storeVars, simVars, genPc, genClipId, genImage, fullPrompt,
                   promptText, genStatus, controllerRef, preClips,
                   imagePending, older, lastEnd, files>>

\* the steps of an attempt that a newer startGeneration has overtaken.  Its
\* controller is no longer referenced; how long its steps take is left open

\* what can make an overtaken attempt throw where it is
OlderCauses(o) ==
    IF o.pc = "submitting"
    THEN IF o.aborted THEN {"AbortError"}
         ELSE {"Generation failed", "Network request failed",
               "JSON Parse error"}
    ELSE IF o.pc = "polling"
    THEN {"Status check failed", "Video generation failed",
          "Generation timed out"}
    ELSE IF o.pc = "downloading" THEN {"Download failed"}
    ELSE {"Thumbnail failed"}

\* the overtaken attempt passes an await of its try block
OlderAdvances(o) ==
    /\ ~Settling
    /\ \/ /\ o.pc = "submitting"
          /\ ~o.aborted
          /\ \E t \in TaskIds :
                clips' = MapUpdate(clips, o.clipId, [klingTaskId |-> t])
          /\ genStatus' = "Generating video..."
          /\ older' = (older \ {o}) \cup {[o EXCEPT !.pc = "polling"]}
          /\ UNCHANGED files
       \/ /\ o.pc = "polling"
          /\ genStatus' = "Downloading video..."
          /\ older' = (older \ {o}) \cup {[o EXCEPT !.pc = "downloading"]}
          /\ UNCHANGED <<clips, files>>
       \/ /\ o.pc = "downloading"
          /\ older' = (older \ {o}) \cup {[o EXCEPT !.pc = "thumbnail"]}
          /\ files' = files \cup {VideoFile(o.clipId)}
          /\ UNCHANGED <<clips, genStatus>>
    /\ UNCHANGED <<phase, selectedImageUri, nextId, ret, now, aborted, pollVars,
                   simVars, genPc, genClipId, genImage, fullPrompt, promptText,
                   modal, controllerRef, preClips, imagePending,
                   cancelAt, lastEnd>>

\* the overtaken attempt throws and runs its catch and finally blocks
OlderFails(o, cause) ==
    /\ ~Settling
    /\ FailEffects(o.clipId, o.aborted, cause)
    /\ genStatus' = IF cause = "Video generation failed" THEN "failed"
                    ELSE genStatus
    /\ older' = older \ {o}
    /\ UNCHANGED <<selectedImageUri, nextId, ret, now, aborted, pollVars,
                   simVars, genPc, genClipId, genImage, fullPrompt, promptText,
                   preClips, imagePending, cancelAt, files>>

\* the overtaken attempt gets its thumbnail and patches its clip to done
OlderSucceeds(o) ==
    /\ ~Settling
    /\ o.pc = "thumbnail"
    /\ DoneEffects(o.clipId, o.aborted)
    /\ older' = older \ {o}
    /\ UNCHANGED <<selectedImageUri, nextId, ret, now, aborted, pollVars,
                   simVars, genPc, genClipId, genImage, fullPrompt, genStatus,
                   modal, preClips, imagePending,
                   cancelAt>>

\* a button of the modal that only closes it, or the back key
hideModal ==
    /\ modal.visible
    /\ phase # "camera"
    /\ ~Settling
    /\ modal' = NoModal
    /\ UNCHANGED <<storeVars, now, aborted, pollVars, simVars, genPc, genClipId,
                   genImage, fullPrompt, promptText, genStatus, controllerRef,
                   preClips, imagePending, older,
                   cancelAt, lastEnd, files>>

handleAddNextClip ==
    /\ phase = "preview"
    /\ ~modal.visible
    /\ ~Settling
    /\ IF LastFrameOf(clips) # NULL
       THEN /\ selectedImageUri' = LastFrameOf(clips)
            /\ phase' = "prompt"
       ELSE /\ phase' = "camera"
            /\ UNCHANGED selectedImageUri
    /\ UNCHANGED <<clips, nextId, ret, now, aborted, pollVars, simVars, genVars>>

handleRetry ==
    /\ phase = "preview"
    /\ ~modal.visible
    /\ ~Settling
    /\ phase' = "prompt"
    /\ UNCHANGED <<clips, selectedImageUri, nextId, ret, now, aborted, pollVars,
                   simVars, genVars>>

\* the Start Over button asks first
askStartOver ==
    /\ phase = "preview"
    /\ ~modal.visible
    /\ ~Settling
    /\ modal' = showModal("Start Over", "This will clear all clips.")
    /\ UNCHANGED <<storeVars, now, aborted, pollVars, simVars, genPc, genClipId,
                   genImage, fullPrompt, promptText, genStatus, controllerRef,
                   preClips, imagePending, older,
                   cancelAt, lastEnd, files>>

\* the modal's Start Over button: hideModal, then reset()
StartOver ==
    /\ modal.visible
    /\ modal.title = "Start Over"
    /\ phase # "camera"
    /\ ~Settling
    /\ modal' = NoModal
    /\ clips' = <<>>
    /\ phase' = "camera"
    /\ selectedImageUri' = NULL
    /\ UNCHANGED <<nextId, ret, now, aborted, pollVars, simVars, genPc,
                   genClipId, genImage, fullPrompt, promptText, genStatus,
                   controllerRef, preClips, imagePending, older,
                   cancelAt, lastEnd, files>>

\* handleBackPress on the camera screen and on the prompt screen, and the
\* prompt screen's button back to the camera
handleBackPress ==
    /\ ~Settling
    /\ \/ /\ phase = "camera"
          /\ FilterDone(clips) # <<>>
          /\ phase' = "preview"
          /\ UNCHANGED modal
       \/ /\ phase = "prompt"
          /\ ~modal.visible
          /\ IF Trim(promptText) # <<>>
             THEN /\ modal' = showModal("Discard Changes?", "")
                  /\ UNCHANGED phase
             ELSE /\ phase' = "camera"
                  /\ UNCHANGED modal
       \/ /\ phase = "prompt"
          /\ ~modal.visible
          /\ phase' = "camera"
          /\ UNCHANGED modal
    /\ UNCHANGED <<clips, selectedImageUri, nextId, ret, now, aborted, pollVars,
                   simVars, genPc, genClipId, genImage, fullPrompt, promptText,
                   genStatus, controllerRef, preClips, imagePending, older,
                   cancelAt, lastEnd, files>>

\* the modal's Discard button: hideModal, then the prompt is cleared
Discard ==
    /\ modal.visible
    /\ modal.title = "Discard Changes?"
    /\ phase # "camera"
    /\ ~Settling
    /\ modal' = NoModal
    /\ promptText' = <<>>
    /\ phase' = "camera"
    /\ UNCHANGED <<clips, selectedImageUri, nextId, ret, now, aborted, pollVars,
                   simVars, genPc, genClipId, genImage, fullPrompt, genStatus,
                   controllerRef, preClips, imagePending, older,
                   cancelAt, lastEnd, files>>

----------------------------------------------------------------------------
(* The main screen with the clip limit (the revision of index.tsx that     *)
(* defines MAX_CLIPS): what it adds to the handlers above                  *)

MAX_CLIPS == 5

\* attempts the app makes beyond MAX_CLIPS
ExtraAttempts == 1

\* doneClips of MainScreen
doneClips(cs) == SelectSeq(cs, LAMBDA c : c.status = "done" /\ Truthy(c.videoUri))

\* startGeneration of this revision, which is that of index.tsx: its first
\* MAX_CLIPS + ExtraAttempts calls
startGenerationRev ==
    /\ nextId <= MAX_CLIPS + ExtraAttempts
    /\ StartAttempt

\* the add-next-clip button of the preview: disabled when doneClips.length
\* >= MAX_CLIPS
NextClipButton ==
    /\ Len(doneClips(clips)) < MAX_CLIPS
    /\ handleAddNextClip

\* handlePreviewBack: the back button of the preview and the back key ask
\* before the sequence is left
handlePreviewBack ==
    /\ phase = "preview"
    /\ ~modal.visible
    /\ ~Settling
    /\ modal' = showModal("Leave Sequence?", "This will discard all clips.")
    /\ UNCHANGED <<storeVars, now, aborted, pollVars, simVars, genPc, genClipId,
                   genImage, fullPrompt, promptText, genStatus, controllerRef,
                   preClips, imagePending, older,
                   cancelAt, lastEnd, files>>

\* the modal's Leave button: hideModal, then reset()
Leave ==
    /\ modal.visible
    /\ modal.title = "Leave Sequence?"
    /\ phase # "camera"
    /\ ~Settling
    /\ modal' = NoModal
    /\ clips' = <<>>
    /\ phase' = "camera"
    /\ selectedImageUri' = NULL
    /\ UNCHANGED <<nextId, ret, now, aborted, pollVars, simVars, genPc,
                   genClipId, genImage, fullPrompt, promptText, genStatus,
                   controllerRef, preClips, imagePending, older,
                   cancelAt, lastEnd, files>>

\* handleDone: the preview's Done button starts the final playback
handleDone ==
    /\ phase = "preview"
    /\ ~modal.visible
    /\ ~Settling
    /\ phase' = "finalPlayback"
    /\ UNCHANGED <<clips, selectedImageUri, nextId, ret, now, aborted, pollVars,
                   simVars, genVars>>

\* the back button of the final playback and the back key
BackFromFinalPlayback ==
    /\ phase = "finalPlayback"
    /\ ~modal.visible
    /\ ~Settling
    /\ phase' = "preview"
    /\ UNCHANGED <<clips, selectedImageUri, nextId, ret, now, aborted, pollVars,
                   simVars, genVars>>

----------------------------------------------------------------------------
(* Specifications *)

\* the app: the user's actions and the steps of the generation attempts
Init ==
    /\ StoreInit
    /\ now = Ms(StartMs)
    /\ aborted = FALSE
    /\ PollIdle
    /\ SimIdle
    /\ GenIdle

Next ==
    \/ takePicture
    \/ pickFromGallery
    \/ \E img \in Images \cup {NULL} : ImageResolves(img)
    \/ useLastFrame
    \/ \E text \in TypedTexts : setPrompt(text)
    \/ startGeneration
    \/ \E r \in SubmitResults : SubmitReturns(r)
    \/ GenTimerFires
    \/ \E r \in CheckResults : GenCheckReturns(r)
    \/ PollSettles
    \/ \E ok \in BOOLEAN : DownloadReturns(ok)
    \/ \E ok \in BOOLEAN : ThumbnailReturns(ok)
    \/ askCancel
    \/ \E e \in AbortDelays : cancelGeneration(e)
    \/ \E o \in older : OlderAdvances(o)
    \/ \E o \in older : \E cause \in OlderCauses(o) : OlderFails(o, cause)
    \/ \E o \in older : OlderSucceeds(o)
    \/ hideModal
    \/ handleAddNextClip
    \/ handleRetry
    \/ askStartOver
    \/ StartOver
    \/ handleBackPress
    \/ Discard

Spec == Init /\ [][Next]_vars


ChainInit ==
    /\ StoreInit
    /\ now = Ms(StartMs)
    /\ aborted = FALSE
    /\ PollIdle
    /\ SimIdle
    /\ GenIdle

SpecStore == ChainInit /\ [][StoreNext]_vars

\* pollUntilDone on its own, against any transport, with or without a
\* cancellation raised before it starts
PollInit ==
    /\ StoreInit
    /\ now = Ms(StartMs)
    /\ aborted \in BOOLEAN
    /\ PollIdle
    /\ SimIdle
    /\ GenIdle

PollNext ==
    \/ \E t \in TaskIds : PollStart(t)
    \/ \E j \in Jitters : TimerFires(j)
    \/ \E r \in CheckResults, lat \in Latencies : CheckReturns(r, lat)
    \/ \E e \in AbortDelays : PollAbort(e)

SpecPoll == PollInit /\ [][PollNext]_vars

\* pollUntilDone against a transport that always answers processing, never
\* cancelled
StuckInit ==
    /\ StoreInit
    /\ now = Ms(StartMs)
    /\ aborted = FALSE
    /\ PollIdle
    /\ SimIdle
    /\ GenIdle

StuckNext ==
    \/ \E t \in TaskIds : PollStart(t)
    \/ \E j \in Jitters : TimerFires(j)
    \/ \E lat \in Latencies : CheckReturns(Processing, lat)

\* the dummy-mode worker, requests arriving at any time
SimStarts == {Ms(StartMs), Ms(1999), Ms(91999)}

SimInit ==
    /\ StoreInit
    /\ now \in SimStarts
    /\ aborted = FALSE
    /\ PollIdle
    /\ SimIdle
    /\ GenIdle

SimNext ==
    \/ \E b \in Bodies : SimGenerate(b)
    \/ \E id \in OtherIds \cup {j.taskId : j \in simJobs} : SimStatus(id)
    \/ \E d \in TimeSteps : SimTick(d)

SpecSim == SimInit /\ [][SimNext]_vars

\* dummy mode served by several instances
FleetNext ==
    \/ \E i \in Instances : FleetGenerate(i, [image |-> "b64", prompt |-> <<"a">>])
    \/ \E i \in Instances, id \in FleetIds(now) : FleetStatus(i, id)
    \/ SimTick(Ms(DUMMY_DELAY_MS))

FleetInit ==
    /\ SimInit
    /\ now = Ms(StartMs)

SpecFleet == FleetInit /\ [][FleetNext]_vars

SpecStuck == StuckInit /\ [][StuckNext]_vars /\ WF_vars(StuckNext)

\* pollUntilDone against any transport, where every sleep's timer fires and
\* every checkStatus call comes back
SpecPollFair ==
    /\ PollInit
    /\ [][PollNext]_vars
    /\ WF_vars(\E j \in Jitters : TimerFires(j))
    /\ WF_vars(\E r \in CheckResults, lat \in Latencies : CheckReturns(r, lat))

\* one attempt after the other against the worker in real mode
RealGenNext ==
    \/ takePicture
    \/ \E img \in Images : ImageResolves(img)
    \/ \E text \in TypedTexts : setPrompt(text)
    \/ startGeneration
    \/ \E result \in ProviderTasks : RealSubmitReturns(result)
    \/ GenTimerFires
    \/ \E result \in ProviderResults : RealGenCheckReturns(result)
    \/ PollSettles
    \/ \E ok \in BOOLEAN : DownloadReturns(ok)
    \/ \E ok \in BOOLEAN : ThumbnailReturns(ok)
    \/ askCancel
    \/ \E e \in AbortDelays : cancelGeneration(e)
    \/ hideModal

SpecRealGen == Init /\ [][RealGenNext]_vars

\* pollUntilDone against the worker in real mode, never cancelled
RealNext ==
    \/ \E t \in TaskIds : PollStart(t)
    \/ \E j \in Jitters : TimerFires(j)
    \/ \E result \in ProviderResults, lat \in Latencies :
          RealStatusArrives(result, lat)

SpecReal == StuckInit /\ [][RealNext]_vars

\* pollUntilDone against the worker in dummy mode, never cancelled
SimPollNext ==
    \/ \E b \in Bodies : SimGenerate(b)
    \/ \E d \in TimeSteps : DummyWait(d)
    \/ \E j \in simJobs : DummyPollStart(j.taskId)
    \/ \E j \in Jitters : TimerFires(j)
    \/ \E lat \in Latencies, early \in BOOLEAN : DummyStatusArrives(lat, early)

SpecSimPoll == SimInit /\ [][SimPollNext]_vars

\* the main screen with the clip limit, against a provider that completes
\* every job
CappedNext ==
    \/ takePicture
    \/ \E img \in Images : ImageResolves(img)
    \/ \E text \in TypedTexts : setPrompt(text)
    \/ startGenerationRev
    \/ \E t \in TaskIds : SubmitReturns([kind |-> "json", taskId |-> t])
    \/ GenTimerFires
    \/ \E u \in VideoUrls : GenCheckReturns(Completed(u))
    \/ PollSettles
    \/ \E ok \in BOOLEAN : DownloadReturns(ok)
    \/ ThumbnailReturns(TRUE)
    \/ hideModal
    \/ NextClipButton
    \/ handleRetry
    \/ handleBackPress
    \/ Discard
    \/ handlePreviewBack
    \/ Leave
    \/ handleDone
    \/ BackFromFinalPlayback

SpecCapped == Init /\ [][CappedNext]_vars

----------------------------------------------------------------------------
(* Claims about the store, checked under SpecStore *)

DonePositions(cs) == {i \in 1..Len(cs) : cs[i].status = "done"}

MaxOf(S) == CHOOSE m \in S : \A x \in S : x <= m

\* the last-good clip as the data model defines it
LastGood(cs) ==
    IF DonePositions(cs) = {} THEN NoClip
    ELSE <<cs[MaxOf(DonePositions(cs))]>>

\* s contains a, then b, then c, in this order and without overlap
ContainsInOrder3(s, a, b, c) ==
    \E i, j, k \in 1..Len(s) :
        /\ OccursAt(s, a, i)
        /\ i + Len(a) <= j
        /\ OccursAt(s, b, j)
        /\ j + Len(b) <= k
        /\ OccursAt(s, c, k)

Framed(label, p) == <<label>> \o p \o <<"\"">>
AsPrevious(p) == Framed("Previous scene: \"", p)
AsTwoAgo(p) == Framed("Two scenes ago: \"", p)
AsCurrent(p) == Framed("Current scene (continuing from the last frame): \"", p)
Instruction == <<"Maintain smooth visual and motion continuity.">>

\* C1: getLastClip returns the done record of greatest chain position, and
\* null when no record is done; it never returns a record that is not done.
C1_LastClipIsLastDone ==
    ret.op = "getLastClip" => ret.val = LastGood(clips)

\* the generation attempt ends in this step with its record failed
AttemptEndsFailed ==
    /\ genPc # "idle"
    /\ genPc' = "idle"
    /\ \E i \in 1..Len(clips') :
           clips'[i].id = genClipId /\ clips'[i].status = "failed"

\* C2: when a generation attempt ends with its record failed (submit
\* rejected, provider failure, timeout or cancellation), getLastClip() and
\* getContextPrompt(p) for every p return what they returned before the
\* attempt's record was appended.
C2_FailedAttemptKeepsContinuity ==
    [][AttemptEndsFailed
         => /\ getLastClip(clips') = getLastClip(preClips)
            /\ \A p \in Prompts :
                   getContextPrompt(clips', p) = getContextPrompt(preClips, p)]_vars

\* C3: with zero done clips in the chain, getContextPrompt(p) returns p
\* unchanged.
C3_NoDoneClipsPromptUnchanged ==
    (ret.op = "getContextPrompt" /\ DonePositions(clips) = {})
        => ret.val = ret.arg

C3_Witness ==
    /\ ret.op = "getContextPrompt"
    /\ DonePositions(clips) = {}
    /\ \E i, j \in 1..Len(clips) :
          clips[i].status = "failed" /\ clips[j].status = "generating"

\* C4: with exactly one done clip (prompt A), whatever failed or in-flight
\* records surround it, getContextPrompt(B) holds A framed as the previous
\* scene, then B framed as the current scene, then the continuity
\* instruction, and has no "Two scenes ago" line.
C4_OneDoneClipFraming ==
    (ret.op = "getContextPrompt" /\ Cardinality(DonePositions(clips)) = 1)
        => LET A == LastGood(clips)[1].prompt
               B == ret.arg
           IN  /\ ContainsInOrder3(ret.val, AsPrevious(A), AsCurrent(B),
                                   Instruction)
               /\ ~Includes(ret.val, <<"Two scenes ago: \"">>)

C4_Witness ==
    /\ ret.op = "getContextPrompt"
    /\ Cardinality(DonePositions(clips)) = 1
    /\ Len(clips) = 3
    /\ clips[2].status = "done"
    /\ clips[1].status = "failed"
    /\ clips[3].status = "generating"
    /\ ret.arg # clips[2].prompt

\* C5: with two or more done clips, getContextPrompt(C) frames the older of
\* the two done clips of greatest position as "Two scenes ago", the newer
\* as "Previous scene", then C as the current scene; the prompt of no other
\* clip (older done, failed, in-flight) appears.
C5_TwoMostRecentDone ==
    (ret.op = "getContextPrompt" /\ Cardinality(DonePositions(clips)) >= 2)
        => LET j == MaxOf(DonePositions(clips))
               i == MaxOf(DonePositions(clips) \ {j})
               A == clips[i].prompt
               B == clips[j].prompt
               C == ret.arg
           IN  /\ ContainsInOrder3(ret.val, AsTwoAgo(A), AsPrevious(B),
                                   AsCurrent(C))
               /\ Includes(ret.val, Instruction)
               /\ \A k \in 1..Len(clips) :
                     clips[k].prompt \notin {A, B, C}
                        => ~Includes(ret.val, clips[k].prompt)

C5_Witness ==
    /\ ret.op = "getContextPrompt"
    /\ Len(clips) = 3
    /\ \A k \in 1..3 : clips[k].status = "done"
    /\ Cardinality({clips[1].prompt, clips[2].prompt, clips[3].prompt,
                    ret.arg}) = 3
    /\ clips[1].prompt # ret.arg

----------------------------------------------------------------------------
(* Claims about the polling loop *)

\* the backoff schedule as the specification states it, in tenths of a
\* millisecond: 3 s, 3.9 s, 5.07 s, 6.591 s, 8.5683 s, then 10 s
Schedule(k) ==
    IF k <= 5 THEN <<30000, 39000, 50700, 65910, 85683>>[k] ELSE 100000

RECURSIVE ScheduleSum(_)
ScheduleSum(k) == IF k = 0 THEN 0 ELSE Schedule(k) + ScheduleSum(k - 1)

\* five minutes, in tenths of a millisecond
Budget == 5 * 60 * 1000 * 10

\* sleeps of the schedule needed to pass the budget
SleepsToPassBudget ==
    CHOOSE k \in 1..100 : ScheduleSum(k) > Budget /\ ScheduleSum(k - 1) <= Budget

C6_Safety ==
    /\ pollPc \in Terminal => pollPc = "TimedOut"
    /\ pollPc = "TimedOut" => DateNow(now) - startTime > 5 * 60 * 1000
    /\ checkCalls <= SleepsToPassBudget
    /\ sleepCount <= SleepsToPassBudget
    /\ pollPc = "sleeping" => delay = Schedule(sleepCount)
    /\ pollPc = "checking" => checkCalls = sleepCount

\* C6: against a transport that always answers processing, and without
\* cancellation, pollUntilDone ends, and ends only by the timeout, once
\* the five minutes have passed; it issues at most as many checkStatus
\* calls as sleeps of the schedule 3, 3.9, 5.07, ... 10 s fit in the budget,
\* and the k-th sleep lasts the k-th delay of the schedule.
C6_StuckProviderTimesOut ==
    [](C6_Safety) /\ <>(pollPc = "TimedOut")

C6_Witness ==
    /\ pollPc = "TimedOut"
    /\ checkCalls = SleepsToPassBudget
    /\ delay = 100000

\* C7: a step taken while pollUntilDone has not started or is asleep, and
\* that leaves the signal aborted, issues no checkStatus call and can only
\* end the loop as Cancelled; this covers a signal raised before the first
\* poll and one raised during a sleep.
C7_CancelIssuesNoCheck ==
    [][(aborted' /\ pollPc \in {"idle", "sleeping"})
          => /\ checkCalls' = checkCalls
             /\ pollPc' \in {pollPc, "Cancelled"}
             /\ (pollPc = "sleeping" => pollPc' = "Cancelled")]_vars

C7_Witness ==
    /\ pollPc = "Cancelled"
    /\ pollOut = "Generation cancelled"
    /\ checkCalls >= 1
    /\ sleepCount = checkCalls + 1

----------------------------------------------------------------------------
(* Claims about the dummy-mode worker, checked under SpecSim *)

SampleVideoRef == <<WorkerOrigin, "/dummy-video">>

\* C8: a job submitted at time T is reported processing by every status
\* check made before T + delay, and completed with the sample video
\* reference by every check made at or after T + delay, whatever checks
\* came before.
C8_ProcessingUntilReadyAt ==
    \A j \in simJobs :
        (simLast.req = "status" /\ simLast.taskId = j.taskId)
            => /\ simLast.client.kind = "json"
               /\ simLast.client.json =
                    IF DateNow(now) < j.T + DUMMY_DELAY_MS
                    THEN [status |-> "processing"]
                    ELSE [status |-> "completed", videoUrl |-> SampleVideoRef]

C8_Witness ==
    /\ simLast.req = "status"
    /\ \E j \in simJobs :
          /\ simLast.taskId = j.taskId
          /\ DateNow(now) = j.T + DUMMY_DELAY_MS
          /\ simLast.resp.body.status = "completed"

CarriesTag(id) == Len(id) >= 6 /\ \A i \in 1..6 : id[i] = Tag[i]

Remainder(id) == SubSeq(id, 7, Len(id))

\* the text begins, after blanks, with a decimal integer
BeginsWithInteger(s) ==
    \E k \in 1..Len(s) :
        /\ \A h \in 1..(k - 1) : s[h] = " "
        /\ \/ IsDigit(s[k])
           \/ s[k] \in {"-", "+"} /\ k < Len(s) /\ IsDigit(s[k + 1])

C10_TaskIdRoundTrip ==
    \A j \in simJobs :
        LET d == DecodeReadyAt(j.taskId)
        IN  ~d.isNaN /\ d.n = j.T + DUMMY_DELAY_MS

C10_Witness ==
    \E j \in simJobs :
        /\ j.T + DUMMY_DELAY_MS = 100000
        /\ j.taskId = Tag \o <<"1", "0", "0", "0", "0", "0">>

InFlight(cs) == {i \in 1..Len(cs) : cs[i].status = "generating"}

\* C12: in every reachable state at most one clip record has status
\* 'generating'.
C12_SingleInFlight == Cardinality(InFlight(clips)) <= 1

\* C13: a record that is done or failed keeps that status in every later step
\* of the orchestration, for as long as it is in the chain.
C13_StatusOnlyAdvances ==
    [][\A i \in 1..Len(clips) :
          clips[i].status \in {"done", "failed"}
              => \A j \in 1..Len(clips') :
                     clips'[j].id = clips[i].id
                         => clips'[j].status = clips[i].status]_vars

C13_Witness ==
    /\ Len(clips) = 2
    /\ clips[1].status = "done"
    /\ clips[2].status = "failed"
    /\ genPc = "idle"
    /\ older = {}

\* the status of the record with this id, or "absent"
StatusOf(cs, id) ==
    IF \E i \in 1..Len(cs) : cs[i].id = id
    THEN cs[CHOOSE i \in 1..Len(cs) : cs[i].id = id].status
    ELSE "absent"

\* C14: after the user confirmed a cancel while the attempt was suspended in
\* generateVideo, in the sleep between polls or in checkStatus, the attempt
\* goes to no later stage of the pipeline, and when it ends it ends
\* cancelled, with its signal aborted and its record patched to failed.
C14_CancelAbortsPipeline ==
    [][(cancelAt \in {"submitting", "sleeping", "checking"})
         => (/\ genPc' \in {genPc, "idle"}
             /\ (genPc' = "idle")
                  => (/\ aborted
                      /\ (genPc = "polling" => pollPc = "Cancelled")
                      /\ StatusOf(clips', genClipId) = "failed"))]_vars

\* the newest attempt ends in this step, and not by reaching the end of its
\* try block
NewestFails ==
    /\ genPc # "idle"
    /\ genPc' = "idle"
    /\ ~(genPc = "thumbnail" /\ phase' = "preview")

\* the overtaken attempt o ends in this step, and not by reaching the end of
\* its try block
OvertakenFails(o) ==
    /\ o \in older
    /\ \A q \in older' : q.clipId # o.clipId
    /\ ~(o.pc = "thumbnail" /\ phase' = "preview")

\* the record id is failed in chain cs2 if it was in chain cs, and in no case
\* in flight or done
PatchedToFailed(cs, cs2, id) ==
    /\ StatusOf(cs2, id) \notin {"generating", "done"}
    /\ StatusOf(cs, id) # "absent" => StatusOf(cs2, id) = "failed"

\* C15: when an attempt ends without success (submit rejected, malformed
\* response, provider failure, timeout, cancellation, download or thumbnail
\* error), its record is failed from that step on: it is left neither in
\* flight nor done.
C15_FailureMarksRecordFailed ==
    [][/\ NewestFails => PatchedToFailed(clips, clips', genClipId)
       /\ \A o \in older :
             OvertakenFails(o) => PatchedToFailed(clips, clips', o.clipId)]_vars

C15_Witness ==
    /\ modal.visible
    /\ modal.message = "Download failed"
    /\ Len(clips) = 1
    /\ clips[1].status = "failed"
    /\ clips[1].klingTaskId # NULL

\* an attempt ends in this step without success
EndsWithoutSuccess == lastEnd' # lastEnd /\ lastEnd'.how # "done"

\* the causes with which an attempt ends as Cancelled: the poll loop saw the
\* signal, or a fetch in flight was aborted
CancelCauses == {"Generation cancelled", "AbortError"}

\* a Generation Failed modal comes up only in a step in which an attempt ends
\* without success
AlertOnlyAtFailure ==
    (modal' # modal /\ modal'.title = "Generation Failed")
        => EndsWithoutSuccess

\* C16 as stated: an attempt that ends without success and not as Cancelled
\* shows its cause in one Generation Failed modal, in the step in which it
\* ends; an attempt that ends as Cancelled shows nothing.
C16_ErrorSurfacedUnlessCancelled ==
    [][/\ EndsWithoutSuccess
            => IF lastEnd'.how \in CancelCauses
               THEN modal' = modal
               ELSE modal' = showModal("Generation Failed", lastEnd'.how)
       /\ AlertOnlyAtFailure]_vars

\* C16 amended: an attempt that ends without success shows its cause in one
\* Generation Failed modal, in the step in which it ends, exactly when its
\* signal is not aborted by then; once the user confirmed the cancel, a later
\* download or thumbnail error of that attempt shows nothing either.
C16_ErrorSurfacedUnlessSignalAborted ==
    [][/\ EndsWithoutSuccess
            => IF lastEnd'.aborted
               THEN modal' = modal
               ELSE modal' = showModal("Generation Failed", lastEnd'.how)
       /\ AlertOnlyAtFailure]_vars

C16_Witness ==
    /\ lastEnd.how = "Download failed"
    /\ lastEnd.aborted
    /\ ~modal.visible
    /\ genPc = "idle"
    /\ older = {}
    /\ Len(clips) = 1

\* the job id on the record id of chain cs, null if there is none
TaskOf(cs, id) ==
    IF \E i \in 1..Len(cs) : cs[i].id = id
    THEN (CHOOSE c \in {cs[i] : i \in 1..Len(cs)} : c.id = id).klingTaskId
    ELSE NULL

\* what generateVideo rejects with
SubmitCauses ==
    {"Generation failed", "Network request failed", "JSON Parse error",
     "AbortError"}

\* the attempt of record id ends in this step with the cause that
\* generateVideo threw, and the record carries no job id
EndsAtSubmit(id) ==
    /\ lastEnd'.id = id
    /\ lastEnd'.how \in SubmitCauses
    /\ TaskOf(clips', id) = NULL
    /\ StatusOf(clips', id) \in {"failed", "absent"}
    /\ ~lastEnd'.aborted
          => modal' = showModal("Generation Failed", lastEnd'.how)

\* C17: an attempt whose submit fails ends in that step, with the cause that
\* the submit threw: it never starts to poll, so no status check is issued
\* for it, and its record carries no job id.
C17_SubmitFailureEndsAttempt ==
    [][/\ genPc = "submitting"
            => /\ pollPc = "idle" /\ checkCalls = 0
               /\ genPc' \in {"submitting", "polling", "idle"}
               /\ genPc' = "idle"
                     => (/\ pollPc' = "idle" /\ checkCalls' = 0
                         /\ EndsAtSubmit(genClipId))
       /\ \A o \in older :
             (o.pc = "submitting" /\ \A q \in older' : q.clipId # o.clipId)
                => EndsAtSubmit(o.clipId)]_vars

C17_Witness ==
    /\ lastEnd = [id |-> 1, how |-> "Generation failed", aborted |-> FALSE]
    /\ modal = showModal("Generation Failed", "Generation failed")
    /\ Len(clips) = 1
    /\ clips[1].status = "failed"
    /\ clips[1].klingTaskId = NULL
    /\ checkCalls = 0

\* a new attempt starts in this step
AttemptStarts == genClipId' # genClipId /\ genClipId' # 0

\* the chain cs2 is the chain cs with one fresh record in flight appended,
\* whose id is id
FreshRecordAppended(cs, cs2, id) ==
    /\ Len(cs2) = Len(cs) + 1
    /\ SubSeq(cs2, 1, Len(cs)) = cs
    /\ cs2[Len(cs2)].id = id
    /\ cs2[Len(cs2)].status = "generating"
    /\ cs2[Len(cs2)].klingTaskId = NULL
    /\ \A i \in 1..Len(cs) : cs[i].id # id

\* C18: nothing is retried automatically.  A submit is issued only by the
\* step in which the user starts an attempt, and that step appends a fresh
\* record with an id never used before; an attempt never goes back to
\* submitting; a status check is issued only by a poll loop that has not
\* settled, and a settled loop issues nothing more.
C18_NoAutomaticRetry ==
    [][/\ AttemptStarts
            => /\ genPc' = "submitting"
               /\ genClipId' = nextId
               /\ nextId' = nextId + 1
               /\ phase = "prompt" /\ phase' = "generating"
               /\ FreshRecordAppended(clips, clips', genClipId')
       /\ (genPc' = "submitting" /\ ~AttemptStarts)
            => (genPc = "submitting" /\ genClipId' = genClipId)
       /\ checkCalls' > checkCalls
            => /\ genPc = "polling" /\ genPc' = "polling"
               /\ pollPc = "sleeping"
               /\ checkCalls' = checkCalls + 1
               /\ genClipId' = genClipId
       /\ pollPc \in Terminal
            => (pollPc' = "idle" /\ checkCalls' = 0 /\ genPc' # "polling")
       /\ genPc = "idle"
            => (genPc' \in {"idle", "submitting"} /\ checkCalls' = 0)
       /\ \A q \in older' :
             q.pc = "submitting"
                => (q \in older
                      \/ (genPc = "submitting" /\ q.clipId = genClipId))
       /\ \A i \in 1..Len(clips) : clips[i].id < nextId]_vars

C18_Witness ==
    /\ Len(clips) = 2
    /\ clips[1].status = "failed"
    /\ clips[2].status = "generating"
    /\ lastEnd.id = 1
    /\ lastEnd.how = "Status check failed"
    /\ genPc = "submitting"
    /\ genClipId = 2
    /\ older = {}

\* every record of chain cs is in chain cs2 at the same place, with its id,
\* its image and its prompt
RecordsKept(cs, cs2) ==
    /\ Len(cs2) >= Len(cs)
    /\ \A i \in 1..Len(cs) :
          /\ cs2[i].id = cs[i].id
          /\ cs2[i].imageUri = cs[i].imageUri
          /\ cs2[i].prompt = cs[i].prompt

\* C19: every store operation other than reset() keeps all the records of
\* the chain, in their order and with their ids: the old chain is a prefix
\* of the new one up to the patched fields, so a failed record stays.
C19_RecordsNeverDeleted ==
    [][ret'.op # "reset" => RecordsKept(clips, clips')]_vars

C19_Witness ==
    /\ ret.op = "updateClip"
    /\ Len(clips) = 3
    /\ clips[1].status = "failed"
    /\ clips[2].status = "done"
    /\ clips[3].status = "generating"

\* chain cs2 is chain cs except, at most, for the record id
OnlyRecordChanged(cs, cs2, id) ==
    /\ Len(cs2) = Len(cs)
    /\ \A i \in 1..Len(cs) : cs[i].id # id => cs2[i] = cs[i]

\* the confirmed Start Over, which calls reset()
ResetStep ==
    /\ modal.visible
    /\ modal.title = "Start Over"
    /\ modal' = NoModal
    /\ phase' = "camera"

\* C20: a patch changes no record but the one it names, and nothing at all
\* when the chain has no record of that id.  The patches are the ones of the
\* attempts: the job id after the submit, failed or done at the end.  A chain
\* emptied by reset() stays empty under the patches of an attempt that still
\* runs; the chain changes only by a patch, by the start of an attempt or by
\* reset().
C20_PatchTouchesNamedRecordOnly ==
    [][/\ lastEnd' # lastEnd
            => /\ OnlyRecordChanged(clips, clips', lastEnd'.id)
               /\ StatusOf(clips, lastEnd'.id) = "absent" => clips' = clips
       /\ (genPc = "submitting" /\ genPc' = "polling")
            => /\ OnlyRecordChanged(clips, clips', genClipId)
               /\ StatusOf(clips, genClipId) = "absent" => clips' = clips
       /\ \A o \in older :
             (o.pc = "submitting" /\ [o EXCEPT !.pc = "polling"] \in older')
                => /\ OnlyRecordChanged(clips, clips', o.clipId)
                   /\ StatusOf(clips, o.clipId) = "absent" => clips' = clips
       /\ (clips = <<>> /\ ~AttemptStarts) => clips' = <<>>
       /\ clips' # clips
            => \/ lastEnd' # lastEnd
               \/ genPc = "submitting" /\ genPc' = "polling"
               \/ \E o \in older : o.pc = "submitting" /\ o \notin older'
               \/ AttemptStarts
               \/ ResetStep]_vars

\* the attempt finished its try block after reset(): it put the preview
\* screen up, and the chain is empty
C20_Witness ==
    /\ clips = <<>>
    /\ lastEnd.how = "done"
    /\ phase = "preview"
    /\ genPc = "idle"
    /\ older = {}

\* C21: right after reset(), whatever the state before it, the chain is
\* empty, no image is selected and the phase is camera; so getLastClip() is
\* null and getContextPrompt(p) is p.
C21_ResetRestoresInitialState ==
    ret.op = "reset"
        => /\ clips = <<>>
           /\ selectedImageUri = NULL
           /\ phase = "camera"
           /\ getLastClip(clips) = NoClip
           /\ \A p \in Prompts : getContextPrompt(clips, p) = p

\* a reset() after three records were appended
C21_Witness ==
    /\ ret.op = "reset"
    /\ nextId = 4

\* the files that the records of chain cs refer to
FilesOf(cs) ==
    {cs[i].videoUri : i \in 1..Len(cs)}
        \cup {cs[i].lastFrameUri : i \in 1..Len(cs)}

\* C22: after reset() none of the video files and frame files that the
\* cleared records referred to is left in the cache directory.
C22_ResetReleasesFiles ==
    [][ResetStep => FilesOf(clips) \cap files' = {}]_vars

\* C23: when the extraction of the continuation frame fails, after the job
\* completed and the video was downloaded, the record of the attempt is not
\* patched to failed because of it.
C23_FrameFailureIsNotJobFailure ==
    [][(lastEnd' # lastEnd /\ lastEnd'.how = "Thumbnail failed")
          => StatusOf(clips', lastEnd'.id) # "failed"]_vars

\* C24: the worker reports the provider's 'succeed' as completed, 'failed' as
\* failed and every other status, a missing one included, as processing; on
\* such a status the polling loop goes on to its next sleep (or finds its
\* time budget spent) and ends neither as failed nor as succeeded.
C24_UnknownStatusIsProcessing ==
    [][(pollPc = "checking" /\ pollPc' # "checking" /\ Ok(simLast'.result))
          => LET st == simLast'.result.task_status
                 out == simLast'.resp.body.status
             IN  /\ st = "succeed" => out = "completed"
                 /\ st = "failed" => out = "failed"
                 /\ st \notin {"succeed", "failed"}
                      => /\ out = "processing"
                         /\ lastLabel' = "processing"
                         /\ pollPc' \in {"sleeping", "TimedOut"}]_vars

C24_Witness ==
    /\ simLast.req = "statusReal"
    /\ simLast.result.http = 200
    /\ simLast.result.task_status = NULL
    /\ pollPc = "sleeping"
    /\ sleepCount = 2

\* C25: whatever the transport answers, a provider that stays in processing
\* for ever included, a polling loop that sleeps or checks ends as Succeeded,
\* Failed, Cancelled or TimedOut, given that every timer fires and every
\* call comes back; and it ends within the sleeps that fit in the time
\* budget.
C25_AttemptTerminates ==
    /\ [](sleepCount <= SleepsToPassBudget)
    /\ (pollPc \in {"sleeping", "checking"}) ~> (pollPc \in Terminal)

\* the loop ran for the whole budget and its last check threw
C25_Witness ==
    /\ pollPc = "Failed"
    /\ pollOut = "Status check failed"
    /\ checkCalls = SleepsToPassBudget

\* the polling loop ends in this step
LoopEnds == pollPc \notin Terminal /\ pollPc' \in Terminal

\* the labels set where the attempt starts to submit and starts to poll
LabelsOnEntry ==
    /\ AttemptStarts => genStatus' = "Starting generation..."
    /\ (genPc = "submitting" /\ genPc' = "polling")
          => genStatus' = "Generating video..."

\* C26 as stated: every phase transition notifies the observer with a label:
\* the label is set where the attempt starts to submit and to poll, and
\* when the loop ends the last label the observer got is no longer null or
\* that of a running job.
C26_EveryTransitionNotifies ==
    [][/\ LabelsOnEntry
       /\ LoopEnds => lastLabel' \notin {NULL, "processing"}]_vars

\* C26 amended: the label is set where the attempt starts to submit and to
\* poll, and the observer is called with the status of every answer of
\* checkStatus and at no other time.  So it is told completed when the loop
\* ends as Succeeded and failed when the provider reports failed; when the
\* loop ends as TimedOut it was told the status of the answer before the
\* time check, not the timeout; when the loop ends as Cancelled or by a
\* checkStatus call that throws it is not called and the label stays what it
\* was.
C26_AnswersNotifyObserver ==
    [][/\ LabelsOnEntry
       /\ LoopEnds
            => CASE pollPc' = "Succeeded"
                      -> lastLabel' = "completed" /\ genStatus' = "completed"
                 [] pollPc' = "Failed" /\ pollOut' = "Video generation failed"
                      -> lastLabel' = "failed" /\ genStatus' = "failed"
                 [] pollPc' = "TimedOut"
                      -> \/ /\ lastLabel' = "processing"
                            /\ genStatus' = "Generating video..."
                         \/ /\ lastLabel' = "completed"
                            /\ genStatus' = "completed"
                 [] OTHER
                      -> lastLabel' = lastLabel /\ genStatus' = genStatus
       /\ lastLabel' \notin {lastLabel, NULL} => pollPc = "checking"]_vars

\* the loop ended as Cancelled and the label is still that of a running job
C26_Witness ==
    /\ genPc = "polling"
    /\ pollPc = "Cancelled"
    /\ lastLabel = "processing"
    /\ genStatus = "Generating video..."

\* C27: in every chain the program reaches, a record that is done has a
\* video and a frame, and a record that is in flight or failed has neither.
C27_OutputsIffDone ==
    \A i \in 1..Len(clips) :
        IF clips[i].status = "done"
        THEN clips[i].videoUri # NULL /\ clips[i].lastFrameUri # NULL
        ELSE clips[i].videoUri = NULL /\ clips[i].lastFrameUri = NULL

\* a failed attempt whose video was downloaded, after a done one
C27_Witness ==
    /\ Len(clips) = 2
    /\ clips[1].status = "done"
    /\ clips[1].videoUri = VideoFile(1)
    /\ clips[1].lastFrameUri = FrameFile(1)
    /\ clips[2].status = "failed"
    /\ clips[2].videoUri = NULL
    /\ VideoFile(2) \in files

\* the Next Scene button took the flow from the preview to the camera; no
\* other step without a modal does
NextClipFallsBack ==
    /\ phase = "preview"
    /\ ~modal.visible
    /\ phase' = "camera"

\* C28: starting the next clip falls back to the camera only when the chain
\* has no done clip; with a done clip, also one followed by failed attempts,
\* the flow goes to the prompt with the frame of the last done clip selected.
C28_NextClipUsesLastGoodFrame ==
    [][NextClipFallsBack => DonePositions(clips) = {}]_vars

\* the provider's answer to the create-task request has no job identifier
LacksTaskId(result) == Ok(result) /\ result.task_id \in {NULL, ""}

\* C29: when the provider's answer lacks the job identifier, the submit
\* fails: the attempt ends failed in that step (as cancelled if the signal
\* was raised meanwhile) without a job id on its record and without a status
\* check; and an attempt that starts to poll polls for the job id the
\* provider gave.
C29_MissingJobIdFailsSubmit ==
    [][(genPc = "submitting" /\ genPc' # "submitting")
          => /\ LacksTaskId(simLast'.result)
                  => /\ genPc' = "idle"
                     /\ lastEnd' = [id |-> genClipId,
                                    how |-> IF aborted THEN "AbortError"
                                            ELSE "Generation failed",
                                    aborted |-> aborted]
                     /\ StatusOf(clips', genClipId) = "failed"
                     /\ TaskOf(clips', genClipId) = NULL
                     /\ pollPc' = "idle" /\ checkCalls' = 0
             /\ genPc' = "polling"
                  => /\ pollTask' \in TaskIds
                     /\ pollTask' = simLast'.result.task_id
                     /\ TaskOf(clips', genClipId) = pollTask']_vars

C29_Witness ==
    /\ simLast.req = "generateReal"
    /\ simLast.result = [http |-> 200, task_id |-> NULL]
    /\ simLast.resp.http = 500
    /\ lastEnd.how = "Generation failed"
    /\ modal = showModal("Generation Failed", "Generation failed")
    /\ clips[1].status = "failed"

RECURSIVE Power(_, _)
Power(b, n) == IF n = 0 THEN 1 ELSE b * Power(b, n - 1)

\* min(3 * 1.3^(k-1), 10) seconds in tenths of a millisecond; from the sixth
\* sleep on 3 * 1.3^(k-1) is above 10
StatedDelay(k) ==
    IF k >= 6 THEN 100000
    ELSE Min((30000 * Power(13, k - 1)) \div Power(10, k - 1), 100000)

\* C30: the first sleep lasts 3 s, after every answer that lets the loop go
\* on the delay becomes min(delay * 1.3, 10 s), so the k-th sleep lasts
\* min(3 * 1.3^(k-1), 10) s; the delay never decreases and stays within
\* 3 s and 10 s.
C30_BackoffSchedule ==
    [][/\ pollPc' \in {"sleeping", "checking"}
            => /\ delay' = StatedDelay(sleepCount')
               /\ delay' >= 30000 /\ delay' <= 100000
       /\ pollPc # "idle" => delay' >= delay
       /\ (pollPc = "idle" /\ pollPc' = "sleeping") => delay' = 30000
       /\ (pollPc = "checking" /\ pollPc' = "sleeping")
            => delay' = Min((delay * 13) \div 10, 100000)]_vars

C30_Witness ==
    /\ pollPc = "sleeping"
    /\ sleepCount = 7
    /\ delay = 100000
    /\ lastLabel = "processing"

\* C31: the status checks of one pollUntilDone run one after the other: a
\* checkStatus call is issued only from a sleep, one call at a time, never
\* while a call is outstanding, and a sleep starts only when the loop starts
\* or a call has come back; so when a call is issued, exactly one sleep has
\* started since the call before it.
C31_ChecksAreSequential ==
    [][/\ checkCalls' > checkCalls
            => /\ checkCalls' = checkCalls + 1
               /\ pollPc = "sleeping" /\ pollPc' = "checking"
               /\ sleepCount = checkCalls + 1
       /\ pollPc = "checking" => checkCalls' <= checkCalls
       /\ sleepCount' > sleepCount
            => /\ sleepCount' = sleepCount + 1
               /\ pollPc \in {"idle", "checking"} /\ pollPc' = "sleeping"
               /\ sleepCount = checkCalls]_vars

\* the third call is outstanding, after three sleeps
C31_Witness ==
    /\ pollPc = "checking"
    /\ checkCalls = 3
    /\ sleepCount = 3
    /\ lastLabel = "processing"

\* C32: a signal raised while pollUntilDone sleeps ends the sleep in that
\* step: the loop is Cancelled at the time of the signal, before the time
\* the sleep's timer was set for, whatever the delay, and without a
\* checkStatus call.
C32_SleepIsInterruptible ==
    [][(pollPc = "sleeping" /\ ~aborted /\ aborted')
          => /\ pollPc' = "Cancelled"
             /\ pollOut' = "Generation cancelled"
             /\ now' < now + delay
             /\ checkCalls' = checkCalls
             /\ sleepCount' = sleepCount]_vars

\* cancelled 1.5 s into a sleep of 10 s
C32_Witness ==
    /\ aborted
    /\ pollPc = "Cancelled"
    /\ pollOut = "Generation cancelled"
    /\ delay = Ms(MaxDelayMs)
    /\ sleepCount = checkCalls + 1
    /\ checkCalls >= 5

\* the provider reports the job as succeeded and names no video
SucceedWithoutVideo(result) ==
    /\ Ok(result)
    /\ result.task_status = "succeed"
    /\ ~Truthy(result.url)

\* C33: when the status check is answered completed without a video
\* reference, pollUntilDone neither returns nor reports a failure: it tells
\* the observer completed and goes on as after processing, with the next
\* delay of the backoff and into the next sleep, unless the time budget is
\* used up, so that it ends only by a later answer, the timeout or a
\* cancellation.  It ends as Succeeded only with a video reference.
C33_CompletedWithoutVideoGoesOn ==
    [][/\ (pollPc = "checking" /\ pollPc' # "checking"
              /\ SucceedWithoutVideo(simLast'.result))
            => /\ simLast'.resp.body.status = "completed"
               /\ ~Truthy(simLast'.resp.body.videoUrl)
               /\ lastLabel' = "completed"
               /\ pollPc' = IF TimedOutAt(now', startTime) THEN "TimedOut"
                            ELSE "sleeping"
               /\ delay' = Backoff(delay)
               /\ sleepCount' = IF pollPc' = "sleeping" THEN sleepCount + 1
                                ELSE sleepCount
               /\ checkCalls' = checkCalls
       /\ pollPc' = "Succeeded" => pollOut' \in VideoUrls]_vars

\* the loop sleeps for the third time after an answer of completed without
\* a video
C33_Witness ==
    /\ simLast.req = "statusReal"
    /\ SucceedWithoutVideo(simLast.result)
    /\ simLast.result.url = ""
    /\ lastLabel = "completed"
    /\ pollPc = "sleeping"
    /\ sleepCount = 3
    /\ delay = Backoff(Backoff(Ms(InitialDelayMs)))

\* a status check of the newest attempt comes back in this step, and the
\* worker could not get the job's status from the provider
CheckComesBackNotOk ==
    /\ genPc = "polling"
    /\ pollPc = "checking" /\ pollPc' # "checking"
    /\ ~aborted'
    /\ simLast'.req = "statusReal"
    /\ ~Ok(simLast'.result)

\* C34: a status check that fails at the transport ends pollUntilDone in
\* that step, as Failed with the error of checkStatus and without another
\* checkStatus call, the first failure included; startGeneration then ends
\* in its catch block: the record is patched to failed and keeps its job
\* id, the error is shown and the flow is back at the prompt.
C34_TransportFailureEndsAttempt ==
    [][/\ CheckComesBackNotOk
            => /\ ~Ok(simLast'.resp)
               /\ pollPc' = "Failed"
               /\ pollOut' = "Status check failed"
               /\ checkCalls' = checkCalls
               /\ sleepCount' = sleepCount
       /\ (pollPc = "Failed" /\ pollOut = "Status check failed")
            => /\ genPc = "polling" /\ genPc' = "idle"
               /\ pollPc' = "idle" /\ checkCalls' = 0
               /\ OnlyRecordChanged(clips, clips', genClipId)
               /\ StatusOf(clips', genClipId) = "failed"
               /\ TaskOf(clips', genClipId) = pollTask
               /\ lastEnd' = [id |-> genClipId, how |-> "Status check failed",
                              aborted |-> FALSE]
               /\ modal' = showModal("Generation Failed", "Status check failed")
               /\ phase' = "prompt"]_vars

\* the first status check of the attempt got the provider's error, and the
\* attempt is over
C34_Witness ==
    /\ simLast.req = "statusReal"
    /\ simLast.result.http = 500
    /\ lastEnd = [id |-> 1, how |-> "Status check failed", aborted |-> FALSE]
    /\ genPc = "idle"
    /\ Len(clips) = 1
    /\ clips[1].status = "failed"
    /\ clips[1].klingTaskId = "task1"
    /\ clips[1].videoUri = NULL
    /\ phase = "prompt"
    /\ modal.visible

\* milliseconds since pollUntilDone was entered
Elapsed(t) == DateNow(t) - startTime

\* the provider reports the job as succeeded and names its video
SucceedWithVideo(result) ==
    /\ Ok(result)
    /\ result.task_status = "succeed"
    /\ Truthy(result.url)

\* C35: the time budget runs from the entry into pollUntilDone and is tested
\* only at the top of the loop, before the sleep.  A sleep starts within the
\* five minutes and lasts at most 10 s, so a checkStatus call starts no
\* later than five minutes and 10 s after the entry, plus the time by which
\* the sleep's timer fired late.  The loop ends as TimedOut only at the top
\* of the loop, after an answer that lets it go on, and never between the
\* sleep and the call; an answer of completed with a video yields Succeeded
\* however late the call began or came back.
C35_DeadlineTestedBeforeSleep ==
    /\ [](pollPc = "sleeping"
            => Elapsed(now) <= MAX_POLL_TIMEOUT /\ delay <= Ms(MaxDelayMs))
    /\ [](pollPc = "checking"
            => Elapsed(now) <= MAX_POLL_TIMEOUT + MaxDelayMs + MaxJitterMs)
    /\ [][/\ (pollPc = "idle" /\ pollPc' # "idle") => startTime' = DateNow(now')
          /\ pollPc' = "TimedOut"
               => /\ pollPc = "checking"
                  /\ Elapsed(now') > MAX_POLL_TIMEOUT
                  /\ ~SucceedWithVideo(simLast'.result)
          /\ pollPc = "sleeping" => pollPc' = "checking"
          /\ (pollPc = "checking" /\ SucceedWithVideo(simLast'.result))
               => /\ pollPc' = "Succeeded"
                  /\ pollOut' = simLast'.result.url]_vars

\* the call began after the five minutes had passed, and its answer made
\* the loop return the video
C35_Witness ==
    /\ pollPc = "Succeeded"
    /\ pollOut \in VideoUrls
    /\ SucceedWithVideo(simLast.result)
    /\ Elapsed(now) > MAX_POLL_TIMEOUT + MaxLatencySteps * LatencyStepMs

\* C36: the step that starts an attempt appends exactly one record to the
\* end of the chain and leaves the others as they are; the record is in
\* flight, has a fresh id, which is the id returned to startGeneration, the
\* selected image and the prompt as typed (trimmed), and no video, frame or
\* job id.  The prompt kept for the submit is getContextPrompt of the typed
\* prompt on the chain as it was before the append: the typed prompt itself
\* when the chain had no done clip, and otherwise a longer text that ends
\* with the framing of the typed prompt, which the record does not hold.
C36_AppendStoresRawPrompt ==
    [][AttemptStarts
          => LET raw == Trim(promptText)
                 rec == clips'[Len(clips')]
             IN  /\ clips' = Append(clips, rec)
                 /\ rec = [id |-> genClipId', imageUri |-> selectedImageUri,
                           prompt |-> raw, videoUri |-> NULL,
                           lastFrameUri |-> NULL, status |-> "generating",
                           klingTaskId |-> NULL]
                 /\ \A i \in 1..Len(clips) : clips[i].id # rec.id
                 /\ genImage' = selectedImageUri
                 /\ fullPrompt' = getContextPrompt(clips, raw)
                 /\ IF DonePositions(clips) = {}
                    THEN fullPrompt' = raw
                    ELSE /\ fullPrompt' # rec.prompt
                         /\ Includes(fullPrompt', AsCurrent(raw))
                         /\ Includes(fullPrompt',
                                     AsPrevious(LastGood(clips)[1].prompt))]_vars

\* the second attempt has started after a done clip: its record holds the
\* typed prompt, the submit gets the prompt with the context
C36_Witness ==
    /\ genPc = "submitting"
    /\ Len(clips) = 2
    /\ clips[1].status = "done"
    /\ clips[2].status = "generating"
    /\ clips[2].prompt = <<"a">>
    /\ clips[2].id = genClipId
    /\ Includes(fullPrompt, AsPrevious(clips[1].prompt))
    /\ fullPrompt # <<"a">>

\* where startGeneration is past pollUntilDone
AfterPolling == {"downloading", "thumbnail"}

\* C37: a cancel confirmed while the attempt downloads the video or
\* extracts the frame raises the signal and changes nothing else; the
\* download and the extraction go on, and when both succeed the attempt
\* ends as without the cancel: the record is patched to done with its video
\* and frame and the flow is at the preview.  The attempt does not end as
\* cancelled; it fails only if the download or the extraction itself fails.
\* A record that reset() removed meanwhile stays absent.
C37_LateCancelHasNoEffect ==
    /\ []((aborted /\ genPc \in AfterPolling) => cancelAt \in AfterPolling)
    /\ [][/\ (genPc \in AfterPolling /\ ~aborted /\ aborted')
               => /\ genPc' = genPc
                  /\ genClipId' = genClipId
                  /\ clips' = clips
                  /\ phase' = phase
                  /\ files' = files
                  /\ lastEnd' = lastEnd
          /\ (genPc = "downloading" /\ aborted /\ genPc' # genPc /\ ~AttemptStarts)
               => \/ genPc' = "thumbnail" /\ clips' = clips
                  \/ genPc' = "idle" /\ lastEnd'.how = "Download failed"
          /\ (genPc = "thumbnail" /\ aborted /\ genPc' # genPc /\ ~AttemptStarts)
               => /\ genPc' = "idle"
                  /\ lastEnd'.id = genClipId
                  /\ lastEnd'.aborted
                  /\ lastEnd'.how \in {"done", "Thumbnail failed"}
                  /\ lastEnd'.how = "done"
                       => /\ clips' = MapUpdate(clips, genClipId,
                                    [videoUri |-> VideoFile(genClipId),
                                     lastFrameUri |-> FrameFile(genClipId),
                                     status |-> "done"])
                          /\ StatusOf(clips, genClipId) # "absent"
                                => StatusOf(clips', genClipId) = "done"
                          /\ phase' = "preview"
                          /\ promptText' = <<>>
                          /\ modal' = modal]_vars

\* the first attempt was cancelled while it downloaded, and ended done
C37_Witness ==
    /\ lastEnd = [id |-> 1, how |-> "done", aborted |-> TRUE]
    /\ genPc = "idle"
    /\ clips[1].status = "done"
    /\ clips[1].videoUri = VideoFile(1)
    /\ phase = "preview"
    /\ ~modal.visible

\* an attempt runs: the newest one or one that a newer one has overtaken
AttemptRuns == genPc # "idle" \/ older # {}

\* an attempt ends in this step
AnAttemptEnds == lastEnd' # lastEnd

\* C38: the phase is generating exactly while an attempt runs; the step in
\* which an attempt ends sets the phase to preview if the attempt ended
\* done and to prompt if it ended by a failure, the timeout or a
\* cancellation; so the phase is never generating without a running attempt.
C38_GeneratingIffAttemptRuns ==
    /\ [](phase = "generating" <=> AttemptRuns)
    /\ [][AnAttemptEnds
             => phase' = IF lastEnd'.how = "done" THEN "preview"
                         ELSE "prompt"]_vars

\* the part of C38 that holds also when attempts overlap: every end of an
\* attempt sets the phase, and the phase is not generating when no attempt
\* runs
C38_NeverGeneratingWithoutAttempt ==
    /\ [](phase = "generating" => AttemptRuns)
    /\ [][AnAttemptEnds
             => phase' = IF lastEnd'.how = "done" THEN "preview"
                         ELSE "prompt"]_vars

\* when the job that is polled for was submitted, in milliseconds
SubmittedAt(taskId) ==
    (CHOOSE j \in simJobs : j.taskId = taskId).T

\* the url of the sample video
DummyVideoUrl == WorkerOrigin \o "/dummy-video"

\* an answer that the worker in real mode gives for some answer of the
\* provider: the same status, with a video url or without
LikeLiveAnswer(resp) ==
    \E result \in ProviderResults :
        LET live == handleStatusReal(result)
        IN  /\ live.http = resp.http
            /\ live.body.status = resp.body.status
            /\ Truthy(live.body.videoUrl) <=> "videoUrl" \in DOMAIN resp.body

\* C39: pollUntilDone as it is, run without cancellation against the worker
\* in dummy mode for a job the worker has returned, gets only answers that
\* the worker in real mode can give; it is never told failed and never ends
\* as Failed, TimedOut or Cancelled; a check that the worker answers before
\* the submission time plus 8 s is answered processing, and the first check
\* answered at or after that time is answered completed with the sample
\* video and ends the loop as Succeeded, after three checks at most and
\* long before the five minutes.
C39_DummyModeLikeLive ==
    /\ [](/\ pollPc \notin {"Failed", "TimedOut", "Cancelled"}
          /\ lastLabel \in {NULL, "processing", "completed"}
          /\ checkCalls <= 3)
    /\ [][(pollPc = "checking" /\ pollPc' # "checking")
            => LET readyAt == SubmittedAt(pollTask) + DUMMY_DELAY_MS
                   resp == simLast'.resp
               IN  /\ simLast'.req = "status"
                   /\ simLast'.taskId = pollTask
                   /\ LikeLiveAnswer(resp)
                   /\ IF simLast'.at < readyAt
                      THEN /\ resp.body.status = "processing"
                           /\ pollPc' = "sleeping"
                           /\ lastLabel' = "processing"
                      ELSE /\ resp.body.status = "completed"
                           /\ pollPc' = "Succeeded"
                           /\ pollOut' = DummyVideoUrl
                           /\ lastLabel' = "completed"
                           /\ Elapsed(now') * 10 < MAX_POLL_TIMEOUT]_vars

\* the third check found the job ready
C39_Witness ==
    /\ pollPc = "Succeeded"
    /\ pollOut = DummyVideoUrl
    /\ checkCalls = 3
    /\ simLast.req = "status"
    /\ simLast.at >= SubmittedAt(pollTask) + DUMMY_DELAY_MS

\* C40: the chain never holds more than MAX_CLIPS done clips.
C40_AtMostMaxClipsDone == Len(doneClips(clips)) <= MAX_CLIPS

====
